---- MODULE Spec2Model ----
(***************************************************************************)
(* State-machine model of the Hygraph Preview SDK core:                    *)
(*   MessageBridge  - origin-checked, shape-checked postMessage pump       *)
(*   FieldRegistry  - index of annotated DOM nodes                         *)
(*   ContentUpdater - debounced field patches                              *)
(*   Preview        - save-callback delivery                               *)
(* Strings that the code inspects character by character (origins, allow-  *)
(* list patterns) are sequences of one-character strings.                  *)
(***************************************************************************)
EXTENDS Integers, Sequences, FiniteSets, TLC

VARIABLES
  \* ---- MessageBridge (src/src/core/MessageBridge.ts) ----
  allowedOrigins,     \* config.allowedOrigins
  isConnected,        \* MessageBridge.isConnected
  studioOrigin,       \* MessageBridge.studioOrigin (<<>> is null)
  messageQueue,       \* MessageBridge.messageQueue
  bridgeIsDestroyed,  \* MessageBridge.isDestroyed
  posted,             \* calls of window.parent.postMessage, in order
  lastEvent,          \* the last window `message` event and what became of it
  firstInit,          \* origin of the first init that was accepted (<<>> if none)
  lastSend,           \* the last sendMessage call and its return value
  readyTimer,         \* the setTimeout(onReady, 0) of the constructor is pending
  onReadyCalls,       \* number of calls of config.onReady
  \* ---- the allow-list predicate as a pure function ----
  originArg,          \* argument of isOriginAllowed
  originAllowed,      \* its result ("unset" before the call)
  \* ---- document ----
  kids,               \* child lists: node or Body -> sequence of nodes
  attrs,              \* data-hygraph-* attributes of each node
  content,            \* rendered content of each node
  hostChanges,        \* number of changes the host made to the document
  \* ---- FieldRegistry (src/unnamed/part_019) ----
  registry,           \* FieldRegistry.registry, keys in insertion order
  registryIsDestroyed,\* FieldRegistry.isDestroyed
  mutations,          \* mutation records queued for FieldRegistry.observer
  lastRegistryOp,     \* the last scan the registry made: refresh() or a batch
  \* ---- ContentUpdater (src/unnamed/part_018) ----
  updateQueue,        \* ContentUpdater.updateQueue
  timers,             \* pending delay() timers, in firing order
  calls,              \* every updateField call made so far
  updaterIsDestroyed, \* ContentUpdater.isDestroyed
  \* ---- Preview save subscriptions (src/src/core/FieldRegistry.test.ts) ----
  saveCallbacks,      \* Preview.saveCallbacks, a Set in insertion order
  deliveries,         \* running handleContentSaved invocations
  invoked,            \* save-callback invocations so far, in order
  subscriptions,      \* per callback: the last subscribe/unsubscribe call made
                      \* for it and the number of subscribe calls (2: two or more)
  \* ---- OverlayManager (src/unnamed/part_019) and Preview ----
  overlay,            \* the fields of OverlayManager and its listeners
  preview,            \* Preview's document listener and global debug handle
  lastCall,           \* the component whose destroy() ran last, how often in a row,
                      \* and the number of other operations so far
  \* ---- the window ----
  opened,             \* calls of window.open, in order
  focus,              \* field-focus handling: scrollIntoView calls, nodes with the
                      \* highlight class, pending removals, onFieldFocus calls
  instances,          \* the Preview instances constructed in this window
  debugHandle         \* window.__HYGRAPH_PREVIEW__

bridgeVars == <<allowedOrigins, isConnected, studioOrigin, messageQueue,
                bridgeIsDestroyed, posted, lastEvent, firstInit, lastSend>>
readyVars == <<readyTimer, onReadyCalls>>
originVars == <<originArg, originAllowed>>
domVars == <<kids, attrs, content, hostChanges>>
registryVars == <<registry, registryIsDestroyed, mutations, lastRegistryOp>>
updaterVars == <<updateQueue, timers, calls, updaterIsDestroyed>>
saveVars == <<saveCallbacks, deliveries, invoked, subscriptions>>
windowVars == <<opened, focus, instances, debugHandle>>
previewVars == <<overlay, preview, lastCall, windowVars>>
vars == <<bridgeVars, readyVars, originVars, domVars, registryVars, updaterVars, saveVars,
         previewVars>>

----------------------------------------------------------------------------
(* Bounds *)
MaxQueue == 2        \* messages queued before the handshake
MaxPosted == 3       \* postMessage calls recorded
MaxOriginLen == 3    \* length of the generated origin strings
MaxNodes == 3        \* nodes of the document the registry scans
MaxPatchNodes == 2   \* nodes of the document the updater patches
MaxCalls == 2        \* updateField calls
MaxSlots == 2        \* additions to the set of save callbacks
MaxDeliveries == 2   \* content-saved messages handled
MaxObserved == 2     \* nodes of the document the host changes
MaxBatch == 2        \* mutation records queued between two observer callbacks
MaxChanges == 1      \* changes the host makes to the document
MaxDestroys == 2     \* destroy() calls on one component in a row
MaxOps == 3          \* operations on Preview and its components other than destroy()
MaxOpened == 2       \* window.open calls recorded
MaxFocus == 2        \* field-focus messages handled
MaxInstances == 4    \* Preview instances constructed in one window
MaxHandled == 1      \* content-saved and field-update messages a Preview with a bridge handles

Range(s) == {s[i] : i \in DOMAIN s}

----------------------------------------------------------------------------
(* Origins and allow-list entries *)

NullOrigin == <<>>

OriginApp == <<"a","p","p",".","h","y",".","c","o","m">>
WildcardEntry == <<"*",".","e","x",".","c","o","m">>
OriginEditor == <<"e","d",".","e","x",".","c","o","m">>
OriginDeep == <<"a",".","b",".","e","x",".","c","o","m">>
OriginOrg == <<"e","x",".","o","r","g">>
OriginBare == <<"e","x",".","c","o","m">>
OriginEvil == <<"e","v","i","l","e","x",".","c","o","m">>
OriginEvilDash == <<"e","v","-","e","x",".","c","o","m">>
OriginNoDot == <<"e","d",".","e","x","-","c","o","m">>
OriginAppNoDot == <<"a","p","p","-","h","y",".","c","o","m">>

NamedOrigins == {OriginApp, OriginEditor, OriginDeep, OriginOrg, OriginBare,
                 OriginEvil, OriginEvilDash, OriginNoDot, OriginAppNoDot}

Alphabet == {"a", ".", "-"}
ShortWildcard == <<"*", ".", "a">>
ShortExact == <<"a", ".", "a">>

StringsOfLen(n) == [1..n -> Alphabet]
GeneratedOrigins == UNION {StringsOfLen(n) : n \in 1..MaxOriginLen}

AllowLists == {<<>>, <<OriginApp>>, <<WildcardEntry>>, <<OriginApp, WildcardEntry>>,
               <<ShortWildcard>>, <<ShortExact>>, <<ShortExact, ShortWildcard>>}

includes(list, x) == \E i \in DOMAIN list : list[i] = x

\* String.prototype.replace(/\*/g, '.*'): the source text of the regular expression
RECURSIVE replaceStar(_)
replaceStar(s) ==
  IF s = <<>> THEN <<>>
  ELSE IF Head(s) = "*" THEN <<".", "*">> \o replaceStar(Tail(s))
  ELSE <<Head(s)>> \o replaceStar(Tail(s))

\* one regular-expression atom against one character: `.` is any character
AtomMatches(a, c) == a = "." \/ a = c

\* new RegExp(`^${pattern}$`).test(s) for the expressions replaceStar produces:
\* atoms, each optionally followed by the quantifier `*`
RECURSIVE RegExpTest(_, _)
RegExpTest(re, s) ==
  IF re = <<>> THEN s = <<>>
  ELSE IF Len(re) >= 2 /\ re[2] = "*"
    THEN \/ RegExpTest(SubSeq(re, 3, Len(re)), s)
         \/ (s # <<>> /\ AtomMatches(re[1], Head(s)) /\ RegExpTest(re, Tail(s)))
    ELSE s # <<>> /\ AtomMatches(re[1], Head(s)) /\ RegExpTest(Tail(re), Tail(s))

WildcardAllows(allowed, origin) ==
  IF includes(allowed, "*")
    THEN RegExpTest(replaceStar(allowed), origin)
    ELSE FALSE

isOriginAllowedIn(list, origin) ==
  \/ includes(list, origin)
  \/ \E i \in DOMAIN list : WildcardAllows(list[i], origin)

isOriginAllowed(origin) == isOriginAllowedIn(allowedOrigins, origin)

----------------------------------------------------------------------------
(* JavaScript values of a message's fields, tagged with their typeof *)

Undefined == <<"undefined">>
JsNull == <<"null">>
Str(x) == <<"string", x>>
Num(x) == <<"number", x>>
typeof(v) == IF v[1] = "null" THEN "object" ELSE v[1]

\* event.data: jstype is "object" for an object, else the primitive it is
Message(type, timestamp, so, entryId, fieldApiId, fieldType, newValue) ==
  [jstype |-> "object", type |-> type, timestamp |-> timestamp, studioOrigin |-> so,
   entryId |-> entryId, fieldApiId |-> fieldApiId, fieldType |-> fieldType,
   newValue |-> newValue]

Primitive(jstype) ==
  [jstype |-> jstype, type |-> Undefined, timestamp |-> Undefined,
   studioOrigin |-> Undefined, entryId |-> Undefined, fieldApiId |-> Undefined,
   fieldType |-> Undefined, newValue |-> Undefined]

isValidStudioMessageNoInitCheck(message) ==
  IF message.jstype # "object" THEN FALSE
  ELSE IF typeof(message.type) # "string" THEN FALSE
  ELSE IF typeof(message.timestamp) # "number" THEN FALSE
  ELSE CASE message.type[2] = "init" -> TRUE
         [] message.type[2] = "field-update" ->
              /\ typeof(message.entryId) = "string"
              /\ typeof(message.fieldApiId) = "string"
              /\ typeof(message.fieldType) = "string"
              /\ message.newValue # Undefined
         [] message.type[2] = "field-focus" ->
              /\ typeof(message.entryId) = "string"
              /\ typeof(message.fieldApiId) = "string"
         [] message.type[2] = "content-saved" -> typeof(message.entryId) = "string"
         [] message.type[2] = "disconnect" -> TRUE
         [] OTHER -> FALSE

isValidStudioMessage(message) ==
  IF message.jstype # "object" THEN FALSE
  ELSE IF typeof(message.type) # "string" THEN FALSE
  ELSE IF typeof(message.timestamp) # "number" THEN FALSE
  ELSE CASE message.type[2] = "init" -> typeof(message.studioOrigin) = "string"
         [] message.type[2] = "field-update" ->
              /\ typeof(message.entryId) = "string"
              /\ typeof(message.fieldApiId) = "string"
              /\ typeof(message.fieldType) = "string"
              /\ message.newValue # Undefined
         [] message.type[2] = "field-focus" ->
              /\ typeof(message.entryId) = "string"
              /\ typeof(message.fieldApiId) = "string"
         [] message.type[2] = "content-saved" -> typeof(message.entryId) = "string"
         [] message.type[2] = "disconnect" -> TRUE
         [] OTHER -> FALSE

----------------------------------------------------------------------------
(* MessageBridge *)

\* outbound SDK messages
FieldClick(entryId) == [type |-> "field-click", entryId |-> entryId]
ReadyMessage == [type |-> "ready", entryId |-> "-"]
SdkMessages == {FieldClick("r1"), FieldClick("r2")}

Post(message, target, via) == [message |-> message, target |-> target, via |-> via]

\* stamp alternates between 0 and 1 at every event (call), so that a repeated
\* event (call) is still seen as a step
NoEvent == [seen |-> FALSE, origin |-> NullOrigin, data |-> Primitive("null"),
            forwarded |-> FALSE, stamp |-> 0]
NoSend == [message |-> ReadyMessage, result |-> FALSE, kind |-> "none", stamp |-> 0,
           failed |-> {}]

Event(origin, data, forwarded) ==
  [seen |-> TRUE, origin |-> origin, data |-> data, forwarded |-> forwarded,
   stamp |-> 1 - lastEvent.stamp]
Sent(message, result, kind) ==
  [message |-> message, result |-> result, kind |-> kind, stamp |-> 1 - lastSend.stamp,
   failed |-> {}]

BridgeConfig == <<OriginApp, WildcardEntry>>

InitBridge ==
  /\ allowedOrigins = BridgeConfig
  /\ isConnected = FALSE
  /\ studioOrigin = NullOrigin
  /\ messageQueue = <<>>
  /\ bridgeIsDestroyed = FALSE
  /\ posted = <<>>
  /\ lastEvent = NoEvent
  /\ firstInit = NullOrigin
  /\ lastSend = NoSend

FlushPostsReversed(queue, origin) ==
  [i \in 1..Len(queue) |-> Post(queue[Len(queue) + 1 - i], origin, "sendMessage")]

\* the posts flushMessageQueue issues through sendMessage once connected to origin
FlushPosts(queue, origin) ==
  [i \in 1..Len(queue) |-> Post(queue[i], origin, "sendMessage")]

sendMessageBroadcast(message) ==
  /\ IF bridgeIsDestroyed
       THEN /\ lastSend' = Sent(message, FALSE, "destroyed")
            /\ UNCHANGED <<messageQueue, posted>>
       ELSE /\ Len(posted) < MaxPosted
            /\ posted' = Append(posted,
                 Post(message, IF isConnected THEN studioOrigin ELSE allowedOrigins[1],
                      "sendMessage"))
            /\ lastSend' = Sent(message, TRUE, "posted")
            /\ UNCHANGED messageQueue
  /\ UNCHANGED <<allowedOrigins, isConnected, studioOrigin, bridgeIsDestroyed,
                 lastEvent, firstInit>>

sendMessage(message) ==
  /\ IF bridgeIsDestroyed
       THEN /\ lastSend' = Sent(message, FALSE, "destroyed")
            /\ UNCHANGED <<messageQueue, posted>>
       ELSE IF ~isConnected \/ studioOrigin = NullOrigin
         THEN /\ Len(messageQueue) < MaxQueue
              /\ messageQueue' = Append(messageQueue, message)
              /\ lastSend' = Sent(message, FALSE, "queued")
              /\ UNCHANGED posted
         ELSE /\ Len(posted) < MaxPosted
              /\ posted' = Append(posted, Post(message, studioOrigin, "sendMessage"))
              /\ \E threw \in BOOLEAN :
                   lastSend' = Sent(message, ~threw, "posted")
              /\ UNCHANGED messageQueue
  /\ UNCHANGED <<allowedOrigins, isConnected, studioOrigin, bridgeIsDestroyed,
                 lastEvent, firstInit>>

SendMessage == \E message \in SdkMessages : sendMessage(message)

\* the loop of sendReadyMessage leaving at the first postMessage that throws
readyPostsUntilFailure(origins, failed) ==
  LET last == IF failed = {} THEN Len(origins)
              ELSE CHOOSE i \in failed : \A j \in failed : i <= j
  IN [i \in 1..last |-> Post(ReadyMessage, origins[i], "sendReadyMessage")]

\* the postMessage calls of sendReadyMessage: one per allow-list entry, each
\* in its own try/catch; failed holds the indices whose call throws
readyPosts(origins, failed) ==
  [i \in 1..Len(origins) |-> Post(ReadyMessage, origins[i], "sendReadyMessage")]

sendReadyMessage ==
  /\ IF bridgeIsDestroyed
       THEN /\ lastSend' = Sent(ReadyMessage, FALSE, "ready")
            /\ UNCHANGED posted
       ELSE /\ Len(posted) + Len(allowedOrigins) <= MaxPosted
            /\ \E failed \in SUBSET (1..Len(allowedOrigins)) :
                 /\ posted' = posted \o readyPosts(allowedOrigins, failed)
                 \* sentSuccessfully: some call did not throw
                 /\ lastSend' = [Sent(ReadyMessage, failed # 1..Len(allowedOrigins), "ready")
                                   EXCEPT !.failed = failed]
  /\ UNCHANGED <<allowedOrigins, isConnected, studioOrigin, messageQueue,
                 bridgeIsDestroyed, lastEvent, firstInit>>

\* destroy() that sets isDestroyed and removes the listener only
BridgeDestroyFlagOnly ==
  /\ bridgeIsDestroyed' = TRUE
  /\ UNCHANGED <<isConnected, studioOrigin, messageQueue>>
  /\ UNCHANGED <<allowedOrigins, posted, lastEvent, firstInit, lastSend>>

BridgeDestroy ==
  /\ bridgeIsDestroyed' = TRUE
  /\ isConnected' = FALSE
  /\ studioOrigin' = NullOrigin
  /\ messageQueue' = <<>>
  /\ UNCHANGED <<allowedOrigins, posted, lastEvent, firstInit, lastSend>>

\* handleConnection(origin), flushMessageQueue included; a flushed message goes
\* back to the queue when the origin is the empty string (sendMessage's guard)
Connect(origin) ==
  /\ isConnected' = TRUE
  /\ studioOrigin' = origin
  /\ IF origin = NullOrigin
       THEN UNCHANGED <<messageQueue, posted>>
       ELSE /\ messageQueue' = <<>>
            /\ posted' = posted \o FlushPosts(messageQueue, origin)
  /\ firstInit' = IF firstInit = NullOrigin THEN origin ELSE firstInit

handleConnectionUnguarded(origin) == Connect(origin)

handleConnection(origin) ==
  IF ~isConnected
    THEN Connect(origin)
    ELSE UNCHANGED <<isConnected, studioOrigin, messageQueue, posted, firstInit>>

Dropped(origin, data) ==
  /\ lastEvent' = Event(origin, data, FALSE)
  /\ UNCHANGED <<isConnected, studioOrigin, messageQueue, posted, firstInit>>

handleMessageNoOriginCheck(origin, data) ==
  /\ IF bridgeIsDestroyed THEN Dropped(origin, data)
     ELSE IF ~isValidStudioMessage(data) THEN Dropped(origin, data)
     ELSE /\ IF data.type[2] = "init"
               THEN handleConnection(origin)
               ELSE UNCHANGED <<isConnected, studioOrigin, messageQueue, posted, firstInit>>
          /\ lastEvent' = Event(origin, data, TRUE)
  /\ UNCHANGED <<allowedOrigins, bridgeIsDestroyed, lastSend>>

\* handleMessage that forwards only init while unconnected, and afterwards
\* only what comes from the peer origin
handleMessageFromPeerOnly(origin, data) ==
  /\ IF bridgeIsDestroyed THEN Dropped(origin, data)
     ELSE IF ~isOriginAllowed(origin) THEN Dropped(origin, data)
     ELSE IF ~isValidStudioMessage(data) THEN Dropped(origin, data)
     ELSE IF isConnected /\ origin # studioOrigin THEN Dropped(origin, data)
     ELSE IF ~isConnected /\ data.type[2] # "init" THEN Dropped(origin, data)
     ELSE /\ IF data.type[2] = "init"
               THEN handleConnection(origin)
               ELSE UNCHANGED <<isConnected, studioOrigin, messageQueue, posted, firstInit>>
          /\ lastEvent' = Event(origin, data, TRUE)
  /\ UNCHANGED <<allowedOrigins, bridgeIsDestroyed, lastSend>>

\* handleMessage that gives up the connection on a disconnect message
handleMessageDisconnecting(origin, data) ==
  /\ IF bridgeIsDestroyed THEN Dropped(origin, data)
     ELSE IF ~isOriginAllowed(origin) THEN Dropped(origin, data)
     ELSE IF ~isValidStudioMessage(data) THEN Dropped(origin, data)
     ELSE /\ IF data.type[2] = "init"
               THEN handleConnection(origin)
               ELSE IF data.type[2] = "disconnect"
                 THEN /\ isConnected' = FALSE
                      /\ studioOrigin' = NullOrigin
                      /\ UNCHANGED <<messageQueue, posted, firstInit>>
                 ELSE UNCHANGED <<isConnected, studioOrigin, messageQueue, posted, firstInit>>
          /\ lastEvent' = Event(origin, data, TRUE)
  /\ UNCHANGED <<allowedOrigins, bridgeIsDestroyed, lastSend>>

handleMessage(origin, data) ==
  /\ IF bridgeIsDestroyed THEN Dropped(origin, data)
     ELSE IF ~isOriginAllowed(origin) THEN Dropped(origin, data)
     ELSE IF ~isValidStudioMessage(data) THEN Dropped(origin, data)
     ELSE /\ IF data.type[2] = "init"
               THEN handleConnection(origin)
               ELSE UNCHANGED <<isConnected, studioOrigin, messageQueue, posted, firstInit>>
          /\ lastEvent' = Event(origin, data, TRUE)
  /\ UNCHANGED <<allowedOrigins, bridgeIsDestroyed, lastSend>>

\* window `message` events the bridge specification delivers
BridgeOrigins == {OriginApp, OriginEditor, OriginEvil, OriginOrg}
InitMessage == Message(Str("init"), Num("1"), Str("o"), Undefined, Undefined,
                       Undefined, Undefined)
InitNoStudioOrigin == Message(Str("init"), Num("1"), Undefined, Undefined, Undefined,
                              Undefined, Undefined)
SavedMessage == Message(Str("content-saved"), Num("1"), Undefined, Str("r4"),
                        Undefined, Undefined, Undefined)
DisconnectMessage == Message(Str("disconnect"), Num("1"), Undefined, Undefined,
                             Undefined, Undefined, Undefined)
BridgeData == {InitMessage, InitNoStudioOrigin, SavedMessage, DisconnectMessage}

HandleMessage == \E origin \in BridgeOrigins, data \in BridgeData : handleMessage(origin, data)

BridgeNext ==
  \/ SendMessage
  \/ sendReadyMessage
  \/ HandleMessage
  \/ BridgeDestroy

----------------------------------------------------------------------------
(* The document: a tree of element nodes under document.body *)

Body == 0
NoNode == -1
Nodes == 1..MaxNodes
NoAttr == "none"     \* the attribute is absent
EntryIds == {"r1", "r2"}
FieldIds == {"title", "body"}

Attrs(entry, field) == [entry |-> entry, field |-> field]

\* the parent of node n, NoNode when n is detached
ParentOf(k, n) ==
  IF \E x \in DOMAIN k : n \in Range(k[x])
    THEN CHOOSE x \in DOMAIN k : n \in Range(k[x])
    ELSE NoNode

\* the nodes of the subtrees rooted at the nodes of seq, in document order
RECURSIVE Subtrees(_, _)
Subtrees(k, seq) ==
  IF seq = <<>> THEN <<>>
  ELSE <<Head(seq)>> \o Subtrees(k, k[Head(seq)]) \o Subtrees(k, Tail(seq))

\* the selectors the code queries with
SelEntry == [kind |-> "[data-hygraph-entry-id]"]
SelFieldOnly == [kind |-> "[data-hygraph-field-api-id]:not([data-hygraph-entry-id])"]
SelEntryField(entryId, fieldApiId) ==
  [kind |-> "[data-hygraph-entry-id=e][data-hygraph-field-api-id=f]",
   entryId |-> entryId, fieldApiId |-> fieldApiId]

HasEntry(a, n) == a[n].entry # NoAttr
FieldOnly(a, n) == a[n].field # NoAttr /\ a[n].entry = NoAttr

Matches(a, n, selector) ==
  IF selector = SelEntry THEN HasEntry(a, n)
  ELSE IF selector = SelFieldOnly THEN FieldOnly(a, n)
  ELSE /\ a[n].entry = selector.entryId
       /\ (selector.fieldApiId = "" \/ a[n].field = selector.fieldApiId)

\* element.querySelectorAll: the descendants of x that match the selector
QuerySelectorAll(k, a, x, selector) ==
  SelectSeq(Subtrees(k, k[x]), LAMBDA n : Matches(a, n, selector))

\* element.closest('[data-hygraph-entry-id]')
RECURSIVE closest(_, _, _)
closest(k, a, n) ==
  IF a[n].entry # NoAttr THEN n
  ELSE IF ParentOf(k, n) \in Nodes THEN closest(k, a, ParentOf(k, n))
  ELSE NoNode

\* the outermost ancestor-or-self that carries data-hygraph-entry-id
RECURSIVE outermost(_, _, _)
outermost(k, a, n) ==
  LET up == IF ParentOf(k, n) \in Nodes THEN outermost(k, a, ParentOf(k, n)) ELSE NoNode
  IN IF up # NoNode THEN up
     ELSE IF a[n].entry # NoAttr THEN n
     ELSE NoNode

\* parent functions whose node numbering is the document order of a tree
RECURSIVE AncestorsOrSelf(_, _)
AncestorsOrSelf(par, n) ==
  IF n = Body THEN {Body} ELSE {n} \cup AncestorsOrSelf(par, par[n])

TreeShapes(last) ==
  {par \in [1..last -> 0..last] :
     /\ \A n \in 1..last : par[n] < n
     /\ \A n \in 2..last : par[n] \in AncestorsOrSelf(par, n - 1)}

\* the child lists of the tree a parent function describes; nodes beyond it
\* are detached
KidsOf(par) ==
  [x \in {Body} \cup Nodes |->
     SelectSeq([i \in 1..MaxNodes |-> i],
               LAMBDA n : n \in DOMAIN par /\ par[n] = x)]

----------------------------------------------------------------------------
(* FieldRegistry *)

RegisteredElement(element, entryId, fieldApiId) ==
  [element |-> element, entryId |-> entryId, fieldApiId |-> fieldApiId]

createRegistryKey(entryId, fieldApiId) ==
  IF fieldApiId # NoAttr THEN entryId \o ":" \o fieldApiId ELSE entryId

\* this.registry[key] with the element replaced in place or pushed
\* registration that pushes without looking for the element in the list
PutAppend(reg, key, re) ==
  IF \E i \in DOMAIN reg : reg[i].key = key
    THEN LET i == CHOOSE i \in DOMAIN reg : reg[i].key = key
         IN [reg EXCEPT ![i].elements = Append(reg[i].elements, re)]
    ELSE Append(reg, [key |-> key, elements |-> <<re>>])

Put(reg, key, re) ==
  IF \E i \in DOMAIN reg : reg[i].key = key
    THEN LET i == CHOOSE i \in DOMAIN reg : reg[i].key = key
             list == reg[i].elements
         IN IF \E j \in DOMAIN list : list[j].element = re.element
              THEN LET j == CHOOSE j \in DOMAIN list : list[j].element = re.element
                   IN [reg EXCEPT ![i].elements = [list EXCEPT ![j] = re]]
              ELSE [reg EXCEPT ![i].elements = Append(list, re)]
    ELSE Append(reg, [key |-> key, elements |-> <<re>>])

hasHygraphAttributes(a, el) == a[el].entry # NoAttr

registerElement(reg, a, el) ==
  IF a[el].entry = NoAttr THEN reg
  ELSE Put(reg, createRegistryKey(a[el].entry, a[el].field),
           RegisteredElement(el, a[el].entry, a[el].field))

registerInheritedOutermost(reg, k, a, el) ==
  IF a[el].field = NoAttr THEN reg
  ELSE IF outermost(k, a, el) = NoNode THEN reg
  ELSE LET entryId == a[outermost(k, a, el)].entry
       IN Put(reg, createRegistryKey(entryId, a[el].field),
              RegisteredElement(el, entryId, a[el].field))

registerInheritedElement(reg, k, a, el) ==
  IF a[el].field = NoAttr THEN reg
  ELSE IF closest(k, a, el) = NoNode THEN reg
  ELSE LET entryId == a[closest(k, a, el)].entry
       IN Put(reg, createRegistryKey(entryId, a[el].field),
              RegisteredElement(el, entryId, a[el].field))

RECURSIVE registerEach(_, _, _)
registerEach(reg, a, seq) ==
  IF seq = <<>> THEN reg
  ELSE registerEach(registerElement(reg, a, Head(seq)), a, Tail(seq))

RECURSIVE registerInheritedEach(_, _, _, _)
registerInheritedEach(reg, k, a, seq) ==
  IF seq = <<>> THEN reg
  ELSE registerInheritedEach(registerInheritedElement(reg, k, a, Head(seq)), k, a, Tail(seq))

scanElement(reg, k, a, el) ==
  LET own == IF hasHygraphAttributes(a, el) THEN registerElement(reg, a, el) ELSE reg
      children == QuerySelectorAll(k, a, el, SelEntry)
      explicit == registerEach(own, a, children)
      inheritedChildren == QuerySelectorAll(k, a, el, SelFieldOnly)
  IN registerInheritedEach(explicit, k, a, inheritedChildren)

RECURSIVE scanEach(_, _, _, _)
scanEach(reg, k, a, seq) ==
  IF seq = <<>> THEN reg
  ELSE scanEach(scanElement(reg, k, a, Head(seq)), k, a, Tail(seq))

scanExistingElements(reg, k, a) ==
  LET explicitElements == QuerySelectorAll(k, a, Body, SelEntry)
      explicit == scanEach(reg, k, a, explicitElements)
      inheritedElements == QuerySelectorAll(k, a, Body, SelFieldOnly)
  IN registerInheritedEach(explicit, k, a, inheritedElements)

\* Object.values(this.registry) flattened
RECURSIVE AllRegistered(_)
AllRegistered(reg) ==
  IF reg = <<>> THEN <<>> ELSE Head(reg).elements \o AllRegistered(Tail(reg))

getElementsForEntryField(reg, entryId, fieldApiId) ==
  SelectSeq(AllRegistered(reg),
            LAMBDA re : re.entryId = entryId /\ re.fieldApiId = fieldApiId)

\* the constructor: initializeObserver(), then scanExistingElements()
\* stamp alternates between 0 and 1 so that a repeated scan is still a step
NoRegistryOp == [op |-> "none", stamp |-> 0]
RegistryOp(op) == [op |-> op, stamp |-> 1 - lastRegistryOp.stamp]

InitRegistry ==
  /\ registry = scanExistingElements(<<>>, kids, attrs)
  /\ registryIsDestroyed = FALSE
  /\ mutations = <<>>
  /\ lastRegistryOp = NoRegistryOp

RegistryRefresh ==
  /\ registry' = IF registryIsDestroyed THEN registry
                 ELSE scanExistingElements(registry, kids, attrs)
  /\ lastRegistryOp' = RegistryOp("refresh")
  /\ UNCHANGED <<registryIsDestroyed, mutations, domVars>>

\* destroy(): observer.disconnect() drops the records not yet delivered
RegistryDestroy ==
  /\ registryIsDestroyed' = TRUE
  /\ mutations' = <<>>
  /\ registry' = <<>>
  /\ UNCHANGED <<lastRegistryOp, domVars>>

----------------------------------------------------------------------------
(* ContentUpdater *)

FieldUpdate(entryId, fieldApiId, fieldType, newValue) ==
  [entryId |-> entryId, fieldApiId |-> fieldApiId, fieldType |-> fieldType,
   newValue |-> newValue]

\* the FieldUpdate objects passed to updateField; two calls with the same
\* name pass the same object
Updates ==
  [u1 |-> FieldUpdate("r2", "body", "STRING", Str("Hi")),
   u2 |-> FieldUpdate("r2", "body", "COMPONENT", <<"component", "Card">>),
   u3 |-> FieldUpdate("r2", "body", "WIDGET", Str("W")),
   u4 |-> FieldUpdate("r2", "price", "INT", Num("12"))]
UpdateIds == DOMAIN Updates
NoUpdate == "none"

\* a key made of the entry id alone
updateKeyEntryOnly(update) == update.entryId

updateKey(update) == update.entryId \o ":" \o update.fieldApiId
UpdateKeys == {updateKey(Updates[id]) : id \in UpdateIds}

SupportedTypes == {"STRING", "ID", "RICHTEXT", "INT", "FLOAT", "BOOLEAN", "DATETIME",
                   "DATE", "ASSET", "LOCATION", "COLOR", "COMPONENT", "JSON",
                   "ENUMERATION", "RELATION"}

\* renderComponent of a component that has only its __typename
renderComponent(componentData) ==
  "<div data-component=\"" \o componentData[2] \o "\"></div>"

\* the text updateTextField / updateNumberField write: String(newValue); the
\* markup updateComponentField writes
Rendered(update) ==
  IF update.fieldType = "COMPONENT" THEN renderComponent(update.newValue)
  ELSE update.newValue[2]

\* window.morphdom is installed by the page; the error it throws on a node
MorphdomError(n) == "morphdom failed on node " \o ToString(n)

\* the message of the error updateElement throws on a node
ErrorMessage(update, n) ==
  IF update.fieldType \in SupportedTypes THEN MorphdomError(n)
  ELSE "Unsupported field type"

\* updateElement with a switch that ignores a type it does not know
ThrowingKnownTypesOnly(update, elements) ==
  IF update.fieldType = "COMPONENT" THEN SUBSET Range(elements)
  ELSE {{}}

\* the sets of nodes updateElement can throw on: every node for a type the
\* switch does not know, any nodes for a component patched by morphdom
Throwing(update, elements) ==
  IF update.fieldType \notin SupportedTypes THEN {Range(elements)}
  ELSE IF update.fieldType = "COMPONENT" THEN SUBSET Range(elements)
  ELSE {{}}

\* the nodes the loop over elements has updated when it stops at the first
\* error
updatedNodesUntilThrow(elements, throwing) ==
  {elements[i] : i \in {j \in DOMAIN elements :
                          \A h \in 1..j : elements[h] \notin throwing}}

\* the nodes the loop over elements has updated: an error is caught inside
\* the loop, which goes on with the next node
updatedNodes(elements, throwing) == Range(elements) \ throwing

\* lastError after the loop
lastError(update, elements, throwing) ==
  LET thrown == {i \in DOMAIN elements : elements[i] \in throwing}
  IN IF thrown = {} THEN ""
     ELSE ErrorMessage(update, elements[CHOOSE i \in thrown : \A j \in thrown : j <= i])

\* document.querySelectorAll('[data-hygraph-entry-id="e"][data-hygraph-field-api-id="f"]')
findElements(k, a, entryId, fieldApiId) ==
  QuerySelectorAll(k, a, Body, SelEntryField(entryId, fieldApiId))

Call(id, opener, inWindow) ==
  [upd |-> id, state |-> "waiting", result |-> "pending", error |-> "",
   applied |-> FALSE, patched |-> {}, failed |-> {}, found |-> {},
   registered |-> {},
   opener |-> opener, inWindow |-> inWindow]

Waiting(key) ==
  {c \in DOMAIN calls : calls[c].state = "waiting" /\ updateKey(Updates[calls[c].upd]) = key}

\* updateField up to its await of delay(): the update is put in the queue and
\* a timer is started.  opener is the call that started the run of
\* overlapping calls on this key, inWindow tells whether that call's timer is
\* still pending.
updateField(id) ==
  IF updaterIsDestroyed
    THEN /\ calls' = Append(calls,
              [Call(id, Len(calls) + 1, TRUE) EXCEPT
                 !.state = "done", !.result = "failure",
                 !.error = "ContentUpdater is destroyed"])
         /\ UNCHANGED <<updateQueue, timers, updaterIsDestroyed>>
    ELSE LET key == updateKey(Updates[id])
             me == Len(calls) + 1
             opener == IF Waiting(key) = {} THEN me
                       ELSE calls[CHOOSE c \in Waiting(key) : TRUE].opener
         IN /\ updateQueue' = [updateQueue EXCEPT ![key] = id]
            /\ timers' = Append(timers, me)
            /\ calls' = Append(calls, Call(id, opener, opener = me \/ opener \in Waiting(key)))
            /\ UNCHANGED updaterIsDestroyed

\* Preview.handleFieldUpdate without a custom handler: the field-update
\* message is the FieldUpdate passed to updateField, whose promise it awaits
handleFieldUpdate(id) == updateField(id)

UpdateField ==
  /\ Len(calls) < MaxCalls
  /\ \E id \in UpdateIds : handleFieldUpdate(id)
  /\ UNCHANGED <<domVars, registryVars>>

\* the rest of updateField, run when the call's delay() timer fires; all calls
\* use the same delay, so timers fire in the order they were started
Apply(c) ==
  LET update == Updates[calls[c].upd]
      key == updateKey(update)
      elements == findElements(kids, attrs, update.entryId, update.fieldApiId)
  IN \E throwing \in Throwing(update, elements) :
       LET updated == updatedNodes(elements, throwing)
       IN /\ updateQueue' = [updateQueue EXCEPT ![key] = NoUpdate]
          /\ content' = [n \in Nodes |->
               IF n \in updated THEN Rendered(update) ELSE content[n]]
          /\ calls' = [calls EXCEPT
               ![c].state = "done",
               ![c].applied = TRUE,
               ![c].found = Range(elements),
               ![c].registered =
                  {re.element : re \in Range(getElementsForEntryField(
                                  registry, update.entryId, update.fieldApiId))},
               ![c].patched = updated,
               ![c].failed = throwing,
               ![c].result = IF elements # <<>> /\ throwing = {} THEN "success"
                             ELSE "failure",
               ![c].error = IF elements = <<>> THEN "No matching elements found"
                            ELSE lastError(update, elements, throwing)]

ResumeUnchecked(c) == Apply(c)

Resume(c) ==
  IF updateQueue[updateKey(Updates[calls[c].upd])] # calls[c].upd
    THEN \* superseded by a newer update
         /\ calls' = [calls EXCEPT ![c].state = "done", ![c].result = "success"]
         /\ UNCHANGED <<updateQueue, content>>
    ELSE Apply(c)

TimerFire ==
  /\ timers # <<>>
  /\ Resume(Head(timers))
  /\ timers' = Tail(timers)
  /\ UNCHANGED <<kids, attrs, hostChanges, registryVars, updaterIsDestroyed>>

\* destroy() that leaves the queue as it is
UpdaterDestroyKeepsQueue ==
  /\ updaterIsDestroyed' = TRUE
  /\ UNCHANGED <<updateQueue, timers, calls, domVars, registryVars>>

UpdaterDestroy ==
  /\ updaterIsDestroyed' = TRUE
  /\ updateQueue' = [k \in UpdateKeys |-> NoUpdate]
  /\ UNCHANGED <<timers, calls, domVars, registryVars>>

----------------------------------------------------------------------------
(* OverlayManager *)

\* the state the constructor leaves: both overlay nodes appended to
\* document.body and hidden, the four listeners attached.  hideTimer is the
\* setTimeout(..., 50) of handleMouseMove; threw tells that a call raised.
\* registered is the RegisteredElement the onclick of the edit button holds,
\* enabled is config.overlayEnabled, pointer the target of the last mouse
\* event, previous the value currentTarget had before that event, dispatched
\* the detail of the last hygraph-edit-click event (its stamp alternates so
\* that a repeated click is still a step)
EditButton == -2
Outside == -3
NoRegistered == RegisteredElement(NoNode, NoAttr, NoAttr)

NewOverlay ==
  [overlayElement |-> TRUE, editButtonElement |-> TRUE, display |-> "none",
   currentTarget |-> NoNode, isDestroyed |-> FALSE, listeners |-> TRUE,
   hideTimer |-> FALSE, threw |-> FALSE, enabled |-> TRUE,
   registered |-> NoRegistered, pointer |-> Outside, previous |-> NoNode,
   dispatched |-> [detail |-> NoRegistered, stamp |-> 0]]

\* target.closest('[data-hygraph-field-api-id], [data-hygraph-entry-id]')
RECURSIVE closestHygraph(_, _, _)
closestHygraph(k, a, n) ==
  IF n \notin Nodes THEN NoNode
  ELSE IF a[n].field # NoAttr \/ a[n].entry # NoAttr THEN n
  ELSE closestHygraph(k, a, ParentOf(k, n))

showOverlay(o, element, registeredElement) ==
  IF o.isDestroyed \/ ~o.enabled THEN o
  ELSE [o EXCEPT !.currentTarget = element,
                 !.registered = IF o.editButtonElement THEN registeredElement ELSE @,
                 !.display = IF o.overlayElement THEN "block" ELSE @]

hideOverlay(o) ==
  IF o.isDestroyed THEN o
  ELSE [o EXCEPT !.currentTarget = NoNode, !.display = "none"]

\* handleMouseMove that starts the hide timer on every move off the target
handleMouseMoveHidesFirst(o, k, a, target) ==
  LET hygraphElement == closestHygraph(k, a, target)
      ancestor == IF hygraphElement = NoNode THEN NoNode ELSE closest(k, a, hygraphElement)
  IN IF o.isDestroyed \/ target = EditButton THEN o
     ELSE IF hygraphElement # o.currentTarget /\ o.currentTarget # NoNode
       THEN hideOverlay(o)
     ELSE IF hygraphElement # NoNode /\ ancestor # NoNode
       THEN showOverlay(o, hygraphElement,
                        RegisteredElement(hygraphElement, a[ancestor].entry,
                                          a[hygraphElement].field))
     ELSE o

\* a mousemove over a node of the document, over the body or over the edit
\* button; the record id is the node's own or that of its closest ancestor
handleMouseMove(o, k, a, target) ==
  LET hygraphElement == closestHygraph(k, a, target)
      ancestor == IF hygraphElement = NoNode THEN NoNode ELSE closest(k, a, hygraphElement)
  IN IF o.isDestroyed \/ target = EditButton THEN o
     ELSE IF hygraphElement # NoNode /\ hygraphElement # o.currentTarget
       THEN IF ancestor # NoNode
              THEN showOverlay(o, hygraphElement,
                               RegisteredElement(hygraphElement, a[ancestor].entry,
                                                 a[hygraphElement].field))
              ELSE o
     ELSE IF hygraphElement = NoNode /\ o.currentTarget # NoNode
       THEN [o EXCEPT !.hideTimer = TRUE]
     ELSE o

\* the edit button can be under the pointer only while it is displayed
MouseTargets ==
  {Body} \cup {n \in Nodes : ParentOf(kids, n) # NoNode}
    \cup (IF overlay.display = "block" /\ overlay.editButtonElement
            THEN {EditButton} ELSE {})

MouseMove ==
  /\ overlay.listeners
  /\ \E target \in MouseTargets :
       overlay' = [handleMouseMove(overlay, kids, attrs, target)
                     EXCEPT !.pointer = target, !.previous = overlay.currentTarget]

\* handleMouseLeave
MouseLeave ==
  /\ overlay.listeners
  /\ overlay' = [hideOverlay(overlay)
                   EXCEPT !.pointer = Outside, !.previous = overlay.currentTarget]

\* the callback of the setTimeout(..., 50) of handleMouseMove; the position
\* it tests is that of the event that started the timer
HideTimerFire ==
  /\ overlay.hideTimer
  /\ \E overEditButton \in BOOLEAN :
       overlay' = [(IF overlay.currentTarget # NoNode /\ ~overEditButton
                      THEN hideOverlay(overlay) ELSE overlay)
                   EXCEPT !.hideTimer = FALSE]

\* removeOverlayElements calling remove() on a field that is null
removeOverlayElementsUnguarded(o) ==
  [o EXCEPT !.overlayElement = FALSE, !.editButtonElement = FALSE,
            !.display = "none",
            !.threw = @ \/ ~o.overlayElement \/ ~o.editButtonElement]

removeOverlayElements(o) ==
  [o EXCEPT !.overlayElement = FALSE, !.editButtonElement = FALSE,
            !.display = "none"]

\* destroy(): hoverTimeout is never set, so there is no timeout to clear
overlayDestroy(o) ==
  [removeOverlayElements(o) EXCEPT !.isDestroyed = TRUE, !.listeners = FALSE]

OverlayDestroy == overlay' = overlayDestroy(overlay)

----------------------------------------------------------------------------
(* Preview *)

\* the configuration keys the model follows; "unset" is a key that is absent
PreviewConfig(debug, mode, autoConnect, fallbackToNewTab) ==
  [debug |-> debug, mode |-> mode, autoConnect |-> autoConnect,
   fallbackToNewTab |-> fallbackToNewTab, onFieldFocus |-> FALSE]

\* window.self === window.top: true ("self"), false ("other"), or an exception
TopChecks == {"self", "other", "throws"}

\* determineMode with the catch branch answering standalone
determineModeCatchStandalone(mode, top) ==
  IF mode = "iframe" THEN "iframe"
  ELSE IF mode = "standalone" THEN "standalone"
  ELSE IF top = "other" THEN "iframe" ELSE "standalone"

determineMode(mode, top) ==
  IF mode = "iframe" THEN "iframe"
  ELSE IF mode = "standalone" THEN "standalone"
  ELSE IF top = "throws" THEN "iframe"
  ELSE IF top = "self" THEN "standalone" ELSE "iframe"

\* a constructor that makes a MessageBridge in either mode
constructBridgeAlways(config, top) ==
  [config |-> config, top |-> top,
   mode |-> determineMode(config.mode, top),
   messageBridge |-> TRUE,
   autoConnect |-> config.autoConnect # "false",
   editListener |-> TRUE, global |-> config.debug]

\* Preview after construction: the mode is fixed, the bridge exists in iframe
\* mode only, the hygraph-edit-click listener is attached, and
\* window.__HYGRAPH_PREVIEW__ is the instance when config.debug is set.
\* autoConnect defaults to true.
construct(config, top) ==
  [config |-> config, top |-> top,
   mode |-> determineMode(config.mode, top),
   messageBridge |-> determineMode(config.mode, top) = "iframe",
   autoConnect |-> config.autoConnect # "false",
   editListener |-> TRUE, global |-> config.debug]

\* an embedded Preview with the default configuration
NewPreview(debug) == construct(PreviewConfig(debug, "iframe", "unset", "unset"), "other")

\* parseComponentChain: the links of a JSON array of {fieldApiId, instanceId}
\* objects; undefined for an absent attribute, for text that is not JSON or
\* not an array, and for an array without a valid link
ChainLinks == <<[fieldApiId |-> "blocks", instanceId |-> "c1"]>>
ChainJson == "[{\"fieldApiId\":\"blocks\",\"instanceId\":\"c1\"}]"
ChainJsonSpaced == "[ {\"fieldApiId\": \"blocks\", \"instanceId\": \"c1\"} ]"
ChainOther == <<[fieldApiId |-> "blocks", instanceId |-> "c2"]>>
ChainOtherJson == "[{\"fieldApiId\":\"blocks\",\"instanceId\":\"c2\"}]"
NoChain == <<>>

parseComponentChain(raw) ==
  IF raw \in {ChainJson, ChainJsonSpaced} THEN ChainLinks
  ELSE IF raw = ChainOtherJson THEN ChainOther
  ELSE NoChain

\* JSON.stringify of a chain
stringify(chain) ==
  IF chain = ChainLinks THEN ChainJson
  ELSE IF chain = ChainOther THEN ChainOtherJson
  ELSE "[]"

Endpoint == "https://api.hygraph.test/v2/p/master"
DefaultStudioUrl == "https://app.hygraph.com"

\* buildStudioUrl: the base and the search parameters of the URL
buildStudioUrl(entryId, fieldApiId, locale, componentChain) ==
  [base |-> DefaultStudioUrl \o "/entry", endpoint |-> Endpoint, entryId |-> entryId,
   fieldApiId |-> fieldApiId, locale |-> locale,
   componentChain |-> IF componentChain # NoChain THEN stringify(componentChain)
                      ELSE NoAttr]

\* the field-click message built from the attributes of the element
ClickMessage(a, element) ==
  [type |-> "field-click", entryId |-> a[element].entry,
   fieldApiId |-> a[element].field, locale |-> a[element].locale,
   componentChain |-> parseComponentChain(a[element].chain)]

\* handleStandaloneEditClick: the attributes are those of the element itself
handleStandaloneEditClick(element) ==
  IF attrs[element].entry = NoAttr THEN UNCHANGED opened
  ELSE /\ Len(opened) < MaxOpened
       /\ opened' = Append(opened,
            buildStudioUrl(attrs[element].entry, attrs[element].field,
                           attrs[element].locale,
                           parseComponentChain(attrs[element].chain)))

\* handleIframeEditClick
handleIframeEditClick(element) ==
  IF attrs[element].entry = NoAttr \/ ~preview.messageBridge
    THEN UNCHANGED <<bridgeVars, opened>>
    ELSE /\ sendMessage(ClickMessage(attrs, element))
         /\ IF ~lastSend'.result /\ preview.config.fallbackToNewTab # "false"
              THEN handleStandaloneEditClick(element)
              ELSE UNCHANGED opened

\* Preview.handleEditClick on the hygraph-edit-click event: only the element
\* of the event detail is used
handleEditClick(registeredElement) ==
  IF preview.mode = "iframe"
    THEN handleIframeEditClick(registeredElement.element)
    ELSE handleStandaloneEditClick(registeredElement.element) /\ UNCHANGED bridgeVars

\* a click on the edit button: OverlayManager.handleEditClick dispatches
\* hygraph-edit-click with the RegisteredElement of the last showOverlay
EditClick ==
  /\ overlay.display = "block" /\ overlay.editButtonElement
  /\ overlay.registered # NoRegistered
  /\ overlay' = [overlay EXCEPT !.dispatched = [detail |-> overlay.registered,
                                                stamp |-> 1 - @.stamp]]
  /\ IF preview.editListener
       THEN handleEditClick(overlay.registered)
       ELSE UNCHANGED <<bridgeVars, opened>>

NoCall == [component |-> "none", times |-> 0, ops |-> 0]

\* the save callbacks the host subscribes, named by what a call of them does:
\* return a promise that resolves, throw, return a promise that rejects
Callbacks == {"refresh", "thrower", "rejecter"}
Behaviour == [refresh |-> "resolves", thrower |-> "throws", rejecter |-> "rejects"]

----------------------------------------------------------------------------
(* Quiet values of the components a specification leaves alone *)

\* window.__HYGRAPH_PREVIEW__ is absent
NoInstance == 0

\* no window.open call, no field focus, no instance in the instance table
NoFocus == [scrolled |-> <<>>, highlighted |-> {}, timers |-> <<>>, handler |-> <<>>]

QuietWindow ==
  /\ opened = <<>>
  /\ focus = NoFocus
  /\ instances = <<>>
  /\ debugHandle = NoInstance

QuietPreview ==
  /\ overlay = NewOverlay
  /\ preview = NewPreview(FALSE)
  /\ lastCall = NoCall
  /\ QuietWindow

\* a bridge whose config has no onReady
QuietReady ==
  /\ readyTimer = FALSE
  /\ onReadyCalls = 0

QuietOrigin ==
  /\ originArg = NullOrigin
  /\ originAllowed = [called |-> FALSE, result |-> FALSE]

QuietDom ==
  /\ kids = [x \in {Body} \cup Nodes |-> <<>>]
  /\ attrs = [n \in Nodes |-> [entry |-> NoAttr, field |-> NoAttr]]
  /\ content = [n \in Nodes |-> "initial"]
  /\ hostChanges = 0

QuietRegistry ==
  /\ registry = <<>>
  /\ registryIsDestroyed = FALSE
  /\ mutations = <<>>
  /\ lastRegistryOp = NoRegistryOp

QuietUpdater ==
  /\ updateQueue = [k \in UpdateKeys |-> NoUpdate]
  /\ timers = <<>>
  /\ calls = <<>>
  /\ updaterIsDestroyed = FALSE

QuietSave ==
  /\ saveCallbacks = <<>>
  /\ subscriptions = [cb \in Callbacks |-> [last |-> "none", subscribes |-> 0]]
  /\ deliveries = <<>>
  /\ invoked = <<>>

----------------------------------------------------------------------------
(* The allow-list predicate applied to one origin *)

InitOrigin ==
  /\ allowedOrigins \in AllowLists
  /\ originArg \in NamedOrigins \cup GeneratedOrigins
  /\ originAllowed = [called |-> FALSE, result |-> FALSE]
  /\ isConnected = FALSE
  /\ studioOrigin = NullOrigin
  /\ messageQueue = <<>>
  /\ bridgeIsDestroyed = FALSE
  /\ posted = <<>>
  /\ lastEvent = NoEvent
  /\ firstInit = NullOrigin
  /\ lastSend = NoSend
  /\ QuietReady /\ QuietPreview /\ QuietDom /\ QuietRegistry /\ QuietUpdater /\ QuietSave

CheckOrigin ==
  /\ ~originAllowed.called
  /\ originAllowed' = [called |-> TRUE, result |-> isOriginAllowed(originArg)]
  /\ UNCHANGED <<originArg, bridgeVars, readyVars, previewVars, domVars, registryVars, updaterVars, saveVars>>

SpecOrigin == InitOrigin /\ [][CheckOrigin]_vars

\* the reading of an allow-list entry the documentation gives: `*` stands for
\* any run of characters, every other character for itself
RECURSIVE LiteralGlobTest(_, _)
LiteralGlobTest(p, s) ==
  IF p = <<>> THEN s = <<>>
  ELSE IF Head(p) = "*"
    THEN LiteralGlobTest(Tail(p), s) \/ (s # <<>> /\ LiteralGlobTest(p, Tail(s)))
    ELSE s # <<>> /\ Head(s) = Head(p) /\ LiteralGlobTest(Tail(p), Tail(s))

EntryAdmits(entry, origin) ==
  \/ entry = origin
  \/ includes(entry, "*") /\ LiteralGlobTest(entry, origin)

\* C2: an origin is admitted exactly when some allow-list entry is identical to
\* it or is a wildcard entry whose literal characters, dots included, the
\* origin matches one for one.
C2_WildcardIsLiteral ==
  originAllowed.called =>
    (originAllowed.result <=>
       \E i \in DOMAIN allowedOrigins : EntryAdmits(allowedOrigins[i], originArg))

----------------------------------------------------------------------------
(* MessageBridge alone *)

InitBridgeSpec ==
  /\ InitBridge /\ QuietReady /\ QuietPreview
  /\ QuietOrigin /\ QuietDom /\ QuietRegistry /\ QuietUpdater /\ QuietSave

NextBridge ==
  BridgeNext /\ UNCHANGED <<readyVars, previewVars, originVars, domVars, registryVars, updaterVars, saveVars>>

SpecBridge == InitBridgeSpec /\ [][NextBridge]_vars

NewPosts == SubSeq(posted', Len(posted) + 1, Len(posted'))

\* C1: a message event whose origin the allow-list does not admit is not passed
\* to onMessage and leaves isConnected and the peer origin as they were,
\* whatever its data.
C1_DisallowedOriginIgnored ==
  [][(lastEvent'.stamp # lastEvent.stamp /\ ~isOriginAllowed(lastEvent'.origin))
       => /\ ~lastEvent'.forwarded
          /\ isConnected' = isConnected
          /\ studioOrigin' = studioOrigin]_vars

C1_Witness ==
  /\ lastEvent.seen
  /\ ~isOriginAllowed(lastEvent.origin)
  /\ lastEvent.data = InitMessage
  /\ ~isConnected

\* C4: a sendMessage call on a live bridge without a peer origin returns false,
\* posts nothing and appends the message to the queue; the step that
\* establishes the peer origin posts the queued messages, each once and in
\* queue order, to the origin of the init event, and empties the queue.
C4_QueueFlushedInOrder ==
  [][/\ (lastSend'.stamp # lastSend.stamp /\ lastSend'.kind # "ready"
           /\ ~bridgeIsDestroyed /\ ~isConnected)
          => /\ lastSend'.result = FALSE
             /\ posted' = posted
             /\ messageQueue' = Append(messageQueue, lastSend'.message)
     /\ (~isConnected /\ isConnected')
          => /\ Len(NewPosts) = Len(messageQueue)
             /\ \A i \in DOMAIN messageQueue :
                  /\ NewPosts[i].message = messageQueue[i]
                  /\ NewPosts[i].target = lastEvent'.origin
             /\ messageQueue' = <<>>]_vars

C4_Witness ==
  /\ isConnected
  /\ Len(posted) = 2
  /\ posted[1].message # posted[2].message
  /\ \A i \in DOMAIN posted : posted[i].via = "sendMessage"
  /\ lastSend.kind = "queued"
  /\ messageQueue = <<>>

\* C5: every postMessage that sendMessage issues goes to the stored peer
\* origin, which is the origin of the first accepted init; none is issued
\* while no peer origin is stored.
C5_PostsOnlyToPeer ==
  [][\A i \in DOMAIN NewPosts :
       NewPosts[i].via = "sendMessage"
         => /\ studioOrigin' # NullOrigin
            /\ NewPosts[i].target = studioOrigin'
            /\ NewPosts[i].target = firstInit']_vars

C5_Witness ==
  /\ lastSend.kind = "posted"
  /\ Len(posted) >= 2
  /\ \A i \in DOMAIN posted : posted[i].via = "sendMessage"
  /\ lastEvent.forwarded /\ lastEvent.data = InitMessage
  /\ lastEvent.origin # studioOrigin

\* C6: a stored peer origin and the connected flag change only by destroy();
\* the stored origin is the origin of the init event that established it, the
\* first one accepted.
C6_FirstInitDecides ==
  [][/\ (studioOrigin # NullOrigin /\ ~bridgeIsDestroyed')
          => (studioOrigin' = studioOrigin /\ isConnected' = isConnected)
     /\ (~isConnected /\ isConnected')
          => /\ studioOrigin' = lastEvent'.origin
             /\ lastEvent'.data.type = Str("init")
             /\ firstInit = NullOrigin
     /\ studioOrigin' # NullOrigin => studioOrigin' = firstInit']_vars

C6_Witness ==
  /\ isConnected
  /\ studioOrigin = OriginApp
  /\ lastEvent.forwarded
  /\ lastEvent.data = InitMessage
  /\ lastEvent.origin = OriginEditor

----------------------------------------------------------------------------
(* MessageBridge under messages of every shape *)

TimestampValues == {Num("1"), Str("1"), Undefined}
StudioOriginValues == {Str("o"), Num("1"), Undefined}
EntryIdValues == {Str("r4"), Num("1"), Undefined}
FieldApiIdValues == {Str("title"), Undefined}
FieldTypeValues == {Str("STRING"), Undefined}
NewValueValues == {Str("Hi"), JsNull, Undefined}
StudioTypes == {"init", "field-update", "field-focus", "content-saved", "disconnect"}

ShapeData ==
  {Message(Str("init"), ts, so, Undefined, Undefined, Undefined, Undefined) :
     ts \in TimestampValues, so \in StudioOriginValues}
  \cup {Message(Str("field-update"), ts, Undefined, e, f, ft, nv) :
     ts \in TimestampValues, e \in EntryIdValues, f \in FieldApiIdValues,
     ft \in FieldTypeValues, nv \in NewValueValues}
  \cup {Message(Str("field-focus"), ts, Undefined, e, f, Undefined, Undefined) :
     ts \in TimestampValues, e \in EntryIdValues, f \in FieldApiIdValues}
  \cup {Message(Str("content-saved"), ts, Undefined, e, Undefined, Undefined, Undefined) :
     ts \in TimestampValues, e \in EntryIdValues}
  \cup {Message(Str("disconnect"), ts, Undefined, Undefined, Undefined, Undefined, Undefined) :
     ts \in TimestampValues}
  \cup {Message(t, Num("1"), Str("o"), Str("r4"), Str("title"), Str("STRING"), Str("Hi")) :
     t \in {Str("bogus"), Num("1"), Undefined, JsNull}}
  \cup {Primitive("null"), Primitive("string"), Primitive("undefined")}

ShapeOrigins == {OriginApp, OriginOrg}

HandleShaped == \E origin \in ShapeOrigins, data \in ShapeData : handleMessage(origin, data)

NextShape ==
  /\ HandleShaped \/ BridgeDestroy
  /\ UNCHANGED <<readyVars, previewVars, originVars, domVars, registryVars, updaterVars, saveVars>>

SpecShape == InitBridgeSpec /\ [][NextShape]_vars

\* the shape a Studio message must have
WellFormed(m) ==
  /\ m.jstype = "object"
  /\ typeof(m.type) = "string"
  /\ m.type[2] \in StudioTypes
  /\ typeof(m.timestamp) = "number"
  /\ m.type[2] = "init" => typeof(m.studioOrigin) = "string"
  /\ m.type[2] = "field-update" =>
       /\ typeof(m.entryId) = "string"
       /\ typeof(m.fieldApiId) = "string"
       /\ typeof(m.fieldType) = "string"
       /\ m.newValue # Undefined
  /\ m.type[2] = "field-focus" =>
       (typeof(m.entryId) = "string" /\ typeof(m.fieldApiId) = "string")
  /\ m.type[2] = "content-saved" => typeof(m.entryId) = "string"

\* C7: a message is passed to onMessage only if it is well formed (and its
\* origin admitted); a message that is not well formed is dropped and leaves
\* the connection state, the queue and the posts as they were.
C7_OnlyWellFormedForwarded ==
  [][lastEvent'.stamp # lastEvent.stamp
       => /\ lastEvent'.forwarded
               => (WellFormed(lastEvent'.data) /\ isOriginAllowed(lastEvent'.origin))
          /\ ~WellFormed(lastEvent'.data)
               => /\ ~lastEvent'.forwarded
                  /\ isConnected' = isConnected
                  /\ studioOrigin' = studioOrigin
                  /\ messageQueue' = messageQueue
                  /\ posted' = posted]_vars

C7_Witness ==
  /\ lastEvent.seen
  /\ lastEvent.data = InitNoStudioOrigin
  /\ isOriginAllowed(lastEvent.origin)
  /\ ~lastEvent.forwarded
  /\ ~isConnected
  /\ ~bridgeIsDestroyed

----------------------------------------------------------------------------
(* ContentUpdater over a document the registry has scanned *)

PatchAttrs ==
  {Attrs(e, f) : e \in {NoAttr, "r2"}, f \in {NoAttr, "body"}} \cup {Attrs("r2", "price")}

InitUpdater ==
  /\ \E par \in TreeShapes(MaxPatchNodes) : kids = KidsOf(par)
  /\ attrs \in [Nodes -> PatchAttrs]
  /\ \A n \in Nodes : n > MaxPatchNodes => attrs[n] = Attrs(NoAttr, NoAttr)
  /\ content = [n \in Nodes |-> "initial"]
  /\ hostChanges = 0
  /\ InitRegistry
  /\ QuietUpdater
  /\ InitBridge /\ QuietReady /\ QuietPreview /\ QuietOrigin /\ QuietSave

NextUpdater ==
  \/ UpdateField /\ UNCHANGED <<bridgeVars, readyVars, previewVars, originVars, saveVars>>
  \/ TimerFire /\ UNCHANGED <<bridgeVars, readyVars, previewVars, originVars, saveVars>>
  \/ UpdaterDestroy /\ UNCHANGED <<bridgeVars, readyVars, previewVars, originVars, saveVars>>

SpecUpdater == InitUpdater /\ [][NextUpdater]_vars

\* the calls of the run of overlapping calls that call o opened
Episode(o) == {c \in DOMAIN calls : calls[c].opener = o}
LastOf(E) == CHOOSE c \in E : \A d \in E : d <= c

\* C3: when two or more updates of one key were all enqueued before the first
\* one's timer fired, and all have resolved on a live updater, exactly one of
\* the calls applied a patch, the patch is the last enqueued update and went
\* to the nodes findElements returned, and every other call resolved to
\* success without patching a node.
C3_BurstAppliesLastOnce ==
  ~updaterIsDestroyed =>
    \A o \in DOMAIN calls :
      (/\ calls[o].opener = o
       /\ Cardinality(Episode(o)) >= 2
       /\ \A c \in Episode(o) : calls[c].state = "done" /\ calls[c].inWindow)
      => \E w \in Episode(o) :
           /\ calls[w].applied
           /\ calls[w].upd = calls[LastOf(Episode(o))].upd
           /\ calls[w].patched = calls[w].found \ calls[w].failed
           /\ \A c \in Episode(o) \ {w} :
                /\ ~calls[c].applied
                /\ calls[c].result = "success"
                /\ calls[c].patched = {}

C3_Witness ==
  /\ ~updaterIsDestroyed
  /\ Len(calls) = 2
  /\ \A c \in DOMAIN calls :
       calls[c].opener = 1 /\ calls[c].state = "done" /\ calls[c].inWindow
  /\ <<calls[1].upd, calls[2].upd>> = <<"u1", "u2">>
  /\ calls[1].result = "success" /\ ~calls[1].applied
  /\ calls[2].applied
  /\ Cardinality(calls[2].patched) = 2
  /\ \A n \in calls[2].patched : content[n] = "<div data-component=\"Card\"></div>"

\* the message of the error thrown on the last node, in document order, that
\* a call's update failed on
LastFailure(c) ==
  LET update == Updates[calls[c].upd]
      elements == findElements(kids, attrs, update.entryId, update.fieldApiId)
      thrown == {i \in DOMAIN elements : elements[i] \in calls[c].failed}
  IN ErrorMessage(update, elements[CHOOSE i \in thrown : \A j \in thrown : j <= i])

\* C15: when a call of updateField that was not superseded resolves, its
\* result is success exactly when a node matched and no node's update threw;
\* with no matching node it is the failure 'No matching elements found'; and
\* when a node's update throws, every other matched node holds the new
\* content, and the result is a failure with the message of the last error.
C15_ResultOfUpdate ==
  [][\A c \in DOMAIN calls :
       (calls[c].state = "waiting" /\ calls'[c].applied) =>
         LET r == calls'[c]
             update == Updates[r.upd]
         IN /\ r.found = Range(findElements(kids, attrs, update.entryId, update.fieldApiId))
            /\ (r.result = "success") <=> (r.found # {} /\ r.failed = {})
            /\ r.result \in {"success", "failure"}
            /\ r.found = {} => r.error = "No matching elements found"
            /\ r.failed # {} =>
                 /\ \A n \in r.found \ r.failed : content'[n] = Rendered(update)
                 /\ r.error = LastFailure(c)'
            /\ \A n \in Nodes \ r.found : content'[n] = content[n]]_vars

\* a component update matched two nodes, morphdom threw on the first one, the
\* second one was still patched
C15_Witness ==
  \E c \in DOMAIN calls :
    LET elements == findElements(kids, attrs, "r2", "body")
    IN /\ calls[c].upd = "u2" /\ calls[c].applied
       /\ Len(elements) = 2
       /\ calls[c].failed = {elements[1]}
       /\ calls[c].patched = {elements[2]}
       /\ content[elements[2]] = "<div data-component=\"Card\"></div>"
       /\ content[elements[1]] = "initial"
       /\ calls[c].result = "failure"
       /\ calls[c].error = MorphdomError(elements[1])

Unsupported(c) == Updates[calls[c].upd].fieldType \notin SupportedTypes
Resolves(c) == calls[c].state = "waiting" /\ calls'[c].state = "done"

\* the step in which a call of another key than an earlier call of an
\* unsupported type resolves, not superseded, applies its update
LaterUpdateApplied ==
  \A c \in DOMAIN calls : \A d \in DOMAIN calls :
    LET update == Updates[calls[d].upd]
    IN (/\ c < d /\ Unsupported(c) /\ ~Unsupported(d)
        /\ updateKey(update) # updateKey(Updates[calls[c].upd])
        /\ Resolves(d)
        /\ updateQueue[updateKey(update)] = calls[d].upd)
       => /\ calls'[d].applied
          /\ \A n \in calls'[d].found \ calls'[d].failed : content'[n] = Rendered(update)

\* C16: a field update of an unsupported type resolves to a result, never to
\* an exception, and changes no node's content; the result is a failure
\* unless the update was superseded before its timer fired; and a later
\* update of another field is applied as usual.
C16_UnsupportedTypeFails ==
  [][/\ \A c \in DOMAIN calls :
          (Unsupported(c) /\ Resolves(c)) =>
            /\ content' = content
            /\ calls'[c].result \in {"success", "failure"}
            /\ calls'[c].applied =>
                 /\ calls'[c].result = "failure"
                 /\ calls'[c].found # {} => calls'[c].error = "Unsupported field type"
     /\ LaterUpdateApplied]_vars

\* C16 as stated: every field update of an unsupported type resolves to a
\* failure.
C16_AlwaysFailure ==
  [][\A c \in DOMAIN calls :
       (Unsupported(c) /\ Resolves(c)) =>
         /\ content' = content
         /\ calls'[c].result = "failure"]_vars

\* a WIDGET update matched a node and failed, then an update of another
\* field was applied
C16_Witness ==
  /\ Len(calls) = 2
  /\ <<calls[1].upd, calls[2].upd>> = <<"u3", "u4">>
  /\ calls[1].applied /\ calls[1].found # {} /\ calls[1].patched = {}
  /\ calls[1].result = "failure" /\ calls[1].error = "Unsupported field type"
  /\ \A n \in calls[1].found : content[n] = "initial"
  /\ calls[2].applied /\ calls[2].result = "success"
  /\ calls[2].patched # {}
  /\ \A n \in calls[2].patched : content[n] = "12"

\* the calls made for the (entryId, fieldApiId) of a call's update, and the
\* update the last of them enqueued
SameField(c) ==
  {d \in DOMAIN calls :
     /\ Updates[calls[d].upd].entryId = Updates[calls[c].upd].entryId
     /\ Updates[calls[d].upd].fieldApiId = Updates[calls[c].upd].fieldApiId}
LastEnqueued(c) == calls[LastOf(SameField(c))].upd

\* C17: on a live updater, whatever the order and spacing of the calls, a call
\* applies its update only when that update is the last one enqueued for its
\* entryId:fieldApiId; and when no timer is pending, the last update enqueued
\* for every key has been applied and the nodes it patched hold its content.
C17_LastWriterWins ==
  /\ [][\A c \in DOMAIN calls :
          (~updaterIsDestroyed /\ ~calls[c].applied /\ calls'[c].applied)
            => calls[c].upd = LastEnqueued(c)]_vars
  /\ [](( ~updaterIsDestroyed /\ timers = <<>>) =>
          \A c \in DOMAIN calls :
            \E w \in SameField(c) :
              /\ calls[w].applied
              /\ calls[w].upd = LastEnqueued(c)
              /\ calls[w].patched = calls[w].found \ calls[w].failed
              /\ \A n \in calls[w].patched : content[n] = Rendered(Updates[calls[w].upd]))

\* two updates of one key, the second enqueued after the first was applied,
\* and both applied in turn
C17_Witness ==
  /\ ~updaterIsDestroyed /\ timers = <<>>
  /\ Len(calls) = 2
  /\ <<calls[1].upd, calls[2].upd>> = <<"u2", "u1">>
  /\ calls[1].opener = 1 /\ calls[2].opener = 2
  /\ calls[1].applied /\ calls[2].applied
  /\ calls[1].failed = {}
  /\ calls[2].patched # {} /\ calls[2].patched = calls[1].patched
  /\ \A n \in calls[2].patched : content[n] = "Hi"

\* C19: once destroy() has returned no step changes a node's content: a call
\* whose timer fires afterwards resolves without applying its update, and a
\* call of updateField made afterwards resolves at once to a failure and
\* leaves the queue and the timers as they are.
C19_DestroyedNeverPatches ==
  [][updaterIsDestroyed =>
       /\ content' = content
       /\ updaterIsDestroyed'
       /\ \A c \in DOMAIN calls : Resolves(c) => ~calls'[c].applied
       /\ Len(calls') > Len(calls) =>
            /\ calls'[Len(calls')].state = "done"
            /\ calls'[Len(calls')].result = "failure"
            /\ ~calls'[Len(calls')].applied
            /\ updateQueue' = updateQueue
            /\ timers' = timers]_vars

\* an update for a node of the document was pending when destroy() ran and
\* was dropped when its timer fired; a call made after destroy() failed
C19_Witness ==
  /\ updaterIsDestroyed
  /\ Len(calls) = 2 /\ timers = <<>>
  /\ calls[1].upd = "u1" /\ calls[1].state = "done" /\ ~calls[1].applied
  /\ calls[1].result = "success"
  /\ findElements(kids, attrs, "r2", "body") # <<>>
  /\ \A n \in Nodes : content[n] = "initial"
  /\ calls[2].result = "failure" /\ calls[2].error = "ContentUpdater is destroyed"

\* C10: the nodes an applied update looks up to patch are the nodes the
\* registry returns for getElementsForEntryField(entryId, fieldApiId).
C10_PatchesRegistryNodes ==
  \A c \in DOMAIN calls :
    calls[c].applied => calls[c].found = calls[c].registered

----------------------------------------------------------------------------
(* FieldRegistry over the documents it can be constructed on *)

ScanAttrs == {Attrs(e, f) : e \in EntryIds \cup {NoAttr}, f \in FieldIds \cup {NoAttr}}

InitRegistrySpec ==
  /\ \E par \in TreeShapes(MaxNodes) : kids = KidsOf(par)
  /\ attrs \in [Nodes -> ScanAttrs]
  /\ content = [n \in Nodes |-> "initial"]
  /\ hostChanges = 0
  /\ InitRegistry
  /\ InitBridge /\ QuietReady /\ QuietPreview /\ QuietOrigin /\ QuietUpdater /\ QuietSave

NextRegistry ==
  \/ RegistryRefresh /\ UNCHANGED <<bridgeVars, readyVars, previewVars, originVars, updaterVars, saveVars>>
  \/ RegistryDestroy /\ UNCHANGED <<bridgeVars, readyVars, previewVars, originVars, updaterVars, saveVars>>

SpecRegistry == InitRegistrySpec /\ [][NextRegistry]_vars

\* the proper ancestors of node n among the element nodes
RECURSIVE ProperAncestors(_)
ProperAncestors(n) ==
  LET p == ParentOf(kids, n)
  IN IF p \in Nodes THEN {p} \cup ProperAncestors(p) ELSE {}

\* the record id the documentation gives node n: its own, else that of the
\* declaring ancestor with no declaring node between it and n, else none
RecordIdOf(n) ==
  LET declaring == {x \in ProperAncestors(n) : attrs[x].entry # NoAttr}
  IN IF attrs[n].entry # NoAttr THEN attrs[n].entry
     ELSE IF declaring = {} THEN NoAttr
     ELSE attrs[CHOOSE x \in declaring :
                  \A y \in declaring \ {x} : y \in ProperAncestors(x)].entry

RegistrationsOf(n) == {re \in Range(AllRegistered(registry)) : re.element = n}

\* C9: after a scan every node of the document that has a field id is
\* registered under its own record id when it has one, otherwise under the
\* record id of its nearest declaring ancestor, and under no other record id;
\* a node with a field id and no record id on itself or an ancestor has no
\* registration.
C9_RecordIdResolution ==
  ~registryIsDestroyed =>
    \A n \in Nodes :
      attrs[n].field # NoAttr =>
        IF RecordIdOf(n) = NoAttr
          THEN RegistrationsOf(n) = {}
          ELSE /\ RegistrationsOf(n) =
                    {RegisteredElement(n, RecordIdOf(n), attrs[n].field)}
               /\ \E re \in Range(getElementsForEntryField(
                                    registry, RecordIdOf(n), attrs[n].field)) :
                    re.element = n

C9_Witness ==
  /\ ~registryIsDestroyed
  /\ kids[Body] = <<1>> /\ kids[1] = <<2>> /\ kids[2] = <<3>>
  /\ attrs[1] = Attrs("r1", NoAttr)
  /\ attrs[2] = Attrs("r2", "title")
  /\ attrs[3] = Attrs(NoAttr, "body")
  /\ RegistrationsOf(2) = {RegisteredElement(2, "r2", "title")}
  /\ RegistrationsOf(3) = {RegisteredElement(3, "r2", "body")}

----------------------------------------------------------------------------
(* Preview: save subscriptions and the content-saved handler *)

\* a JavaScript Set: its entries in insertion order; a deleted entry keeps its
\* place, emptied, so that a running iterator passes over it
SetEntry(cb) == [callback |-> cb, live |-> TRUE]
SetHas(set, cb) == \E i \in DOMAIN set : set[i].live /\ set[i].callback = cb
\* add of a list: a callback that is present is entered once more
SetAddAgain(set, cb) == Append(set, SetEntry(cb))
SetAdd(set, cb) == IF SetHas(set, cb) THEN set ELSE Append(set, SetEntry(cb))
SetDelete(set, cb) ==
  [i \in DOMAIN set |->
     IF set[i].callback = cb THEN [set[i] EXCEPT !.live = FALSE] ELSE set[i]]
SetClear(set) == [i \in DOMAIN set |-> [set[i] EXCEPT !.live = FALSE]]
SetMembers(set) == {set[i].callback : i \in {j \in DOMAIN set : set[j].live}}
\* the iterator's next entry after position pos, 0 when there is none
SetNext(set, pos) ==
  IF \E i \in DOMAIN set : i > pos /\ set[i].live
    THEN CHOOSE i \in DOMAIN set :
           /\ i > pos /\ set[i].live
           /\ \A j \in DOMAIN set : (j > pos /\ set[j].live) => i <= j
    ELSE 0

Invocation(delivery, cb, entryId) ==
  [delivery |-> delivery, callback |-> cb, entryId |-> entryId]

\* the for-of loop of handleContentSaved from iterator position pos up to its
\* next await: a callback that throws is caught and the loop goes on at once,
\* any other callback suspends the loop at `await callback(entryId)`
RECURSIVE RunCallbacks(_, _, _, _, _)
RunCallbacks(set, pos, log, delivery, entryId) ==
  LET next == SetNext(set, pos)
  IN IF next = 0 THEN [pos |-> 0, invoked |-> log]
     ELSE LET cb == set[next].callback
              called == Append(log, Invocation(delivery, cb, entryId))
          IN IF Behaviour[cb] = "throws"
               THEN RunCallbacks(set, next, called, delivery, entryId)
               ELSE [pos |-> next, invoked |-> called]

\* a subscribe, unsubscribe or destroy call made while a delivery is
\* suspended at an await is noted in the delivery
Disturb(ds) ==
  [d \in DOMAIN ds |-> IF ds[d].pos # 0 THEN [ds[d] EXCEPT !.disturbed = TRUE] ELSE ds[d]]

subscribe(cb) ==
  /\ SetHas(saveCallbacks, cb) \/ Len(saveCallbacks) < MaxSlots
  /\ saveCallbacks' = SetAdd(saveCallbacks, cb)
  /\ subscriptions' = [subscriptions EXCEPT ![cb] =
                         [last |-> "subscribe",
                          subscribes |-> IF @.subscribes = 0 THEN 1 ELSE 2]]
  /\ deliveries' = Disturb(deliveries)
  /\ UNCHANGED invoked

Subscribe == \E cb \in Callbacks : subscribe(cb)

\* a function subscribe returned for cb
unsubscribe(cb) ==
  /\ subscriptions[cb].subscribes > 0
  /\ saveCallbacks' = SetDelete(saveCallbacks, cb)
  /\ subscriptions' = [subscriptions EXCEPT ![cb].last = "unsubscribe"]
  /\ deliveries' = Disturb(deliveries)
  /\ UNCHANGED invoked

Unsubscribe == \E cb \in Callbacks : unsubscribe(cb)

\* handleContentSaved up to its first await; pos = 0 once the loop is over
handleContentSaved(entryId) ==
  LET delivery == Len(deliveries) + 1
      run == RunCallbacks(saveCallbacks, 0, invoked, delivery, entryId)
  IN /\ deliveries' = Append(deliveries,
          [entryId |-> entryId, pos |-> run.pos, atStart |-> SetMembers(saveCallbacks),
           calls |-> subscriptions, disturbed |-> FALSE])
     /\ invoked' = run.invoked
     /\ UNCHANGED <<saveCallbacks, subscriptions>>

handleStudioMessage(message) ==
  IF message.type[2] = "content-saved"
    THEN handleContentSaved(message.entryId[2])
    ELSE UNCHANGED saveVars

SavedFor(entryId) ==
  Message(Str("content-saved"), Num("1"), Undefined, entryId, Undefined, Undefined,
          Undefined)
\* the events delivered: accepted ones, one from an origin that is not allowed
\* and one without an entryId
SaveEvents == {<<OriginApp, SavedFor(Str("r1"))>>, <<OriginApp, SavedFor(Str("r2"))>>,
               <<OriginOrg, SavedFor(Str("r1"))>>, <<OriginApp, SavedFor(Undefined)>>}

\* a window `message` event: MessageBridge.handleMessage, which calls
\* onMessage = handleStudioMessage for the messages it accepts
SaveEvent ==
  \E event \in SaveEvents :
    /\ Len(deliveries) < MaxDeliveries
    /\ handleMessage(event[1], event[2])
    /\ IF lastEvent'.forwarded THEN handleStudioMessage(event[2]) ELSE UNCHANGED saveVars

\* the promise a delivery awaits settles, fulfilled or rejected (the rejection
\* is caught), and the loop goes on
Settle ==
  \E d \in DOMAIN deliveries :
    /\ deliveries[d].pos # 0
    /\ LET run == RunCallbacks(saveCallbacks, deliveries[d].pos, invoked, d,
                               deliveries[d].entryId)
       IN /\ deliveries' = [deliveries EXCEPT ![d].pos = run.pos]
          /\ invoked' = run.invoked
    /\ UNCHANGED <<saveCallbacks, subscriptions>>

\* Preview.destroy()
PreviewDestroy ==
  /\ registryIsDestroyed' = TRUE
  /\ mutations' = <<>>
  /\ registry' = <<>>
  /\ UNCHANGED lastRegistryOp
  /\ IF preview.messageBridge THEN BridgeDestroy ELSE UNCHANGED bridgeVars
  /\ updaterIsDestroyed' = TRUE
  /\ updateQueue' = [k \in UpdateKeys |-> NoUpdate]
  /\ OverlayDestroy
  /\ saveCallbacks' = SetClear(saveCallbacks)
  /\ deliveries' = Disturb(deliveries)
  /\ preview' = [preview EXCEPT !.editListener = FALSE, !.global = FALSE]
  /\ UNCHANGED <<timers, calls, invoked, subscriptions, windowVars>>

InitSave ==
  /\ InitBridge /\ QuietReady /\ QuietPreview
  /\ QuietOrigin /\ QuietDom /\ QuietRegistry /\ QuietUpdater /\ QuietSave

NextSave ==
  \/ Subscribe /\ UNCHANGED <<bridgeVars, readyVars, previewVars, originVars, domVars, registryVars, updaterVars>>
  \/ Unsubscribe /\ UNCHANGED <<bridgeVars, readyVars, previewVars, originVars, domVars, registryVars, updaterVars>>
  \/ SaveEvent /\ UNCHANGED <<readyVars, previewVars, originVars, domVars, registryVars, updaterVars>>
  \/ Settle /\ UNCHANGED <<bridgeVars, readyVars, previewVars, originVars, domVars, registryVars, updaterVars>>
  \/ PreviewDestroy /\ UNCHANGED <<readyVars, lastCall, originVars, domVars>>

SpecSave == InitSave /\ [][NextSave]_vars

InvocationsOf(d, cb) ==
  {i \in DOMAIN invoked : invoked[i].delivery = d /\ invoked[i].callback = cb}

\* C8: in the delivery of an accepted content-saved message every invocation
\* carries the message's entryId, no callback that was subscribed when the
\* message arrived is invoked more than once, and when the delivery is over
\* each of them has been invoked, whatever the callbacks before it did.
C8_EverySubscriberOnce ==
  \A d \in DOMAIN deliveries :
    /\ \A i \in DOMAIN invoked :
         invoked[i].delivery = d => invoked[i].entryId = deliveries[d].entryId
    /\ \A cb \in deliveries[d].atStart :
         /\ Cardinality(InvocationsOf(d, cb)) <= 1
         /\ deliveries[d].pos = 0 => Cardinality(InvocationsOf(d, cb)) = 1

----------------------------------------------------------------------------
(* FieldRegistry under changes of the document *)

getElementsForField(reg, fieldApiId) ==
  SelectSeq(AllRegistered(reg), LAMBDA re : re.fieldApiId = fieldApiId)

getElementsForEntry(reg, entryId) ==
  SelectSeq(AllRegistered(reg), LAMBDA re : re.entryId = entryId)

\* getElement: the first element under the key, <<>> for null
getElement(reg, entryId, fieldApiId) ==
  LET key == createRegistryKey(entryId, fieldApiId)
      lists == SelectSeq(reg, LAMBDA r : r.key = key)
  IN IF lists = <<>> THEN <<>> ELSE <<Head(lists).elements[1]>>

getStats(reg) ==
  [totalElements |-> Len(AllRegistered(reg)),
   entriesCount |-> Cardinality({re.entryId : re \in Range(AllRegistered(reg))}),
   fieldsCount |-> Cardinality({createRegistryKey(re.entryId, re.fieldApiId) :
                      re \in {x \in Range(AllRegistered(reg)) : x.fieldApiId # NoAttr}})]

unregisterElement(reg, el) ==
  LET filtered == [i \in DOMAIN reg |->
                     [reg[i] EXCEPT !.elements =
                        SelectSeq(reg[i].elements, LAMBDA re : re.element # el)]]
  IN SelectSeq(filtered, LAMBDA r : r.elements # <<>>)

updateElementRegistrationNoUnregister(reg, k, a, el) ==
  IF hasHygraphAttributes(a, el) THEN registerElement(reg, a, el)
  ELSE IF a[el].field # NoAttr THEN registerInheritedElement(reg, k, a, el)
  ELSE reg

updateElementRegistration(reg, k, a, el) ==
  LET removed == unregisterElement(reg, el)
  IN IF hasHygraphAttributes(a, el) THEN registerElement(removed, a, el)
     ELSE IF a[el].field # NoAttr THEN registerInheritedElement(removed, k, a, el)
     ELSE removed

ObservedNodes == 1..MaxObserved
AttributeNames == {"entry", "field"}
IsAttached(k, n) == n \in Range(Subtrees(k, k[Body]))

\* one added node, one removed node or one attribute change
MutationRecord(type, node) == [type |-> type, node |-> node]

\* the observer callback's handling of one record, against the document as
\* it is when the callback runs; removed nodes are not looked at
processMutation(reg, k, a, mutation) ==
  IF mutation.type = "added"
    THEN LET scanned == scanElement(reg, k, a, mutation.node)
         IN IF FieldOnly(a, mutation.node)
              THEN registerInheritedElement(scanned, k, a, mutation.node)
              ELSE scanned
  ELSE IF mutation.type = "attributes"
    THEN updateElementRegistration(reg, k, a, mutation.node)
  ELSE reg

RECURSIVE processMutations(_, _, _, _)
processMutations(reg, k, a, batch) ==
  IF batch = <<>> THEN reg
  ELSE processMutations(processMutation(reg, k, a, Head(batch)), k, a, Tail(batch))

\* the records the observer is handed for a change; none once disconnected
Queue(records) ==
  /\ hostChanges < MaxChanges
  /\ hostChanges' = hostChanges + 1
  /\ Len(mutations) + Len(records) <= MaxBatch
  /\ mutations' = IF registryIsDestroyed THEN mutations ELSE mutations \o records

\* host: setAttribute / removeAttribute on a node of the document
SetAttribute ==
  \E n \in ObservedNodes, name \in AttributeNames :
    \E value \in (IF name = "entry" THEN EntryIds ELSE {"title"}) \cup {NoAttr} :
      /\ IsAttached(kids, n)
      /\ attrs' = [attrs EXCEPT ![n][name] = value]
      /\ Queue(<<MutationRecord("attributes", n)>>)
      /\ UNCHANGED <<kids, content, registry, registryIsDestroyed, lastRegistryOp>>

Without(seq, n) == SelectSeq(seq, LAMBDA x : x # n)

\* host: node.remove()
RemoveChild ==
  \E n \in ObservedNodes :
    /\ IsAttached(kids, n)
    /\ kids' = [x \in DOMAIN kids |-> IF x = ParentOf(kids, n) THEN Without(kids[x], n)
                                      ELSE kids[x]]
    /\ Queue(<<MutationRecord("removed", n)>>)
    /\ UNCHANGED <<attrs, content, registry, registryIsDestroyed, lastRegistryOp>>

\* host: parent.appendChild(n), for a detached n or one that is moved
AppendChild ==
  \E n \in ObservedNodes, parent \in {Body} \cup ObservedNodes :
    /\ parent = Body \/ IsAttached(kids, parent)
    /\ parent \notin Range(Subtrees(kids, <<n>>))
    /\ ParentOf(kids, n) # NoNode \/ ~IsAttached(kids, n)
    /\ kids' = [x \in DOMAIN kids |->
                  IF x = parent THEN Append(Without(kids[x], n), n)
                  ELSE Without(kids[x], n)]
    /\ Queue(IF IsAttached(kids, n)
               THEN <<MutationRecord("removed", n), MutationRecord("added", n)>>
               ELSE <<MutationRecord("added", n)>>)
    /\ UNCHANGED <<attrs, content, registry, registryIsDestroyed, lastRegistryOp>>

\* the MutationObserver callback with the records queued so far
ObserverCallback ==
  /\ mutations # <<>>
  /\ registry' = IF registryIsDestroyed THEN registry
                 ELSE processMutations(registry, kids, attrs, mutations)
  /\ mutations' = <<>>
  /\ lastRegistryOp' = RegistryOp("batch")
  /\ UNCHANGED <<domVars, registryIsDestroyed>>

\* the annotations of the initial document: a record container, a field of
\* its own record, a field that inherits its record
ObservedAttrs == {Attrs("r1", NoAttr), Attrs("r1", "title"), Attrs(NoAttr, "title")}

InitObserver ==
  /\ \E par \in TreeShapes(MaxObserved) : kids = KidsOf(par)
  /\ attrs \in [Nodes -> ObservedAttrs \cup {Attrs(NoAttr, NoAttr)}]
  /\ \A n \in Nodes : attrs[n] = Attrs(NoAttr, NoAttr) <=> n > MaxObserved
  /\ content = [n \in Nodes |-> "initial"]
  /\ hostChanges = 0
  /\ InitRegistry
  /\ InitBridge /\ QuietReady /\ QuietPreview /\ QuietOrigin /\ QuietUpdater /\ QuietSave

NextObserver ==
  \/ SetAttribute /\ UNCHANGED <<bridgeVars, readyVars, previewVars, originVars, updaterVars, saveVars>>
  \/ RemoveChild /\ UNCHANGED <<bridgeVars, readyVars, previewVars, originVars, updaterVars, saveVars>>
  \/ AppendChild /\ UNCHANGED <<bridgeVars, readyVars, previewVars, originVars, updaterVars, saveVars>>
  \/ ObserverCallback /\ UNCHANGED <<bridgeVars, readyVars, previewVars, originVars, updaterVars, saveVars>>
  \/ RegistryRefresh /\ UNCHANGED <<bridgeVars, readyVars, previewVars, originVars, updaterVars, saveVars>>

SpecObserver == InitObserver /\ [][NextObserver]_vars

ElementsOf(list) == {list[i].element : i \in DOMAIN list}

\* the nodes some query of the registry returns
QueriedNodes ==
  UNION ({ElementsOf(getElementsForField(registry, f)) : f \in FieldIds}
         \cup {ElementsOf(getElementsForEntry(registry, e)) : e \in EntryIds}
         \cup {ElementsOf(getElementsForEntryField(registry, e, f)) :
                 e \in EntryIds, f \in FieldIds}
         \cup {ElementsOf(getElement(registry, e, f)) :
                 e \in EntryIds, f \in FieldIds \cup {NoAttr}})

\* C11: on a live registry with every change batch processed, no query
\* returns a node that is not in the document, and getStats counts only
\* registrations of nodes that are in the document.
C11_DetachedNotReturned ==
  (~registryIsDestroyed /\ mutations = <<>>) =>
    /\ \A n \in QueriedNodes : IsAttached(kids, n)
    /\ getStats(registry).totalElements =
         Len(SelectSeq(AllRegistered(registry), LAMBDA re : IsAttached(kids, re.element)))

Annotated(n) == attrs[n].entry # NoAttr \/ attrs[n].field # NoAttr

\* the entries derivable from the annotated nodes now in the document
Derivable ==
  {RegisteredElement(n, RecordIdOf(n), attrs[n].field) :
     n \in {m \in Nodes : /\ IsAttached(kids, m)
                          /\ Annotated(m)
                          /\ RecordIdOf(m) # NoAttr}}

\* C12: a refresh() on a live registry leaves exactly the entries derivable
\* from the annotated nodes in the document (refresh() does not change the
\* document).
C12_RefreshRebuilds ==
  [][(/\ lastRegistryOp'.stamp # lastRegistryOp.stamp
      /\ lastRegistryOp'.op = "refresh"
      /\ ~registryIsDestroyed)
       => Range(AllRegistered(registry')) = Derivable]_vars

RegistrationsIn(reg, n) == SelectSeq(AllRegistered(reg), LAMBDA re : re.element = n)

\* C13: when the observer callback has processed a batch, every node the
\* batch reports an attribute change for is registered exactly once, under
\* the record id and field id its attributes now give, or not at all if it
\* no longer resolves to a record id.
C13_AttributeChangeTracked ==
  [][(/\ lastRegistryOp'.stamp # lastRegistryOp.stamp
      /\ lastRegistryOp'.op = "batch"
      /\ ~registryIsDestroyed)
       => \A i \in DOMAIN mutations :
            mutations[i].type = "attributes" =>
              LET n == mutations[i].node
              IN RegistrationsIn(registry', n) =
                   IF Annotated(n) /\ RecordIdOf(n) # NoAttr
                     THEN <<RegisteredElement(n, RecordIdOf(n), attrs[n].field)>>
                     ELSE <<>>]_vars

C13_Witness ==
  /\ lastRegistryOp.op = "batch"
  /\ mutations = <<>>
  /\ hostChanges = 1
  /\ IsAttached(kids, 1)
  /\ attrs[1] = Attrs("r2", "title")
  /\ getElementsForEntryField(registry, "r1", "title") = <<>>
  /\ getElementsForEntryField(registry, "r2", "title") =
       <<RegisteredElement(1, "r2", "title")>>

\* C14: on a live registry with every change batch processed, every
\* registered entry has a non-empty record id, which is the one on the node
\* itself or else the one its nearest declaring ancestor carries now.
C14_RecordIdCurrent ==
  (~registryIsDestroyed /\ mutations = <<>>) =>
    \A re \in Range(AllRegistered(registry)) :
      /\ re.entryId \notin {"", NoAttr}
      /\ re.entryId = RecordIdOf(re.element)

----------------------------------------------------------------------------
(* MessageBridge constructed by Preview with an onReady callback *)

\* OnReady that sends the ready message whatever autoConnect is
OnReadyAlways ==
  /\ readyTimer
  /\ readyTimer' = FALSE
  /\ onReadyCalls' = onReadyCalls + 1
  /\ sendReadyMessage

\* the callback of setTimeout(..., 0) in setupMessageListener: it calls
\* config.onReady, which in Preview (autoConnect) sends the ready message
OnReady ==
  /\ readyTimer
  /\ readyTimer' = FALSE
  /\ onReadyCalls' = onReadyCalls + 1
  /\ IF preview.autoConnect /\ preview.messageBridge
       THEN sendReadyMessage
       ELSE UNCHANGED bridgeVars

\* the constructor has returned: the listener is attached, the timer is set
InitReady ==
  /\ InitBridge
  /\ readyTimer = TRUE
  /\ onReadyCalls = 0
  /\ QuietPreview /\ QuietOrigin /\ QuietDom /\ QuietRegistry /\ QuietUpdater /\ QuietSave

NextReady ==
  \/ OnReady /\ UNCHANGED <<previewVars, originVars, domVars, registryVars, updaterVars, saveVars>>
  \/ HandleMessage /\ UNCHANGED <<readyVars, previewVars, originVars, domVars, registryVars, updaterVars, saveVars>>
  \/ SendMessage /\ UNCHANGED <<readyVars, previewVars, originVars, domVars, registryVars, updaterVars, saveVars>>
  \/ BridgeDestroy /\ UNCHANGED <<readyVars, previewVars, originVars, domVars, registryVars, updaterVars, saveVars>>

SpecReady == InitReady /\ [][NextReady]_vars

\* C18: once destroy() has returned, no step calls onMessage (no message
\* event is forwarded) and no step calls onReady.
C18_NoCallbackAfterDestroy ==
  [][bridgeIsDestroyed =>
       /\ lastEvent'.stamp # lastEvent.stamp => ~lastEvent'.forwarded
       /\ onReadyCalls' = onReadyCalls]_vars

----------------------------------------------------------------------------
(* Preview and its components from construction to teardown *)

Components == {"FieldRegistry", "ContentUpdater", "OverlayManager", "MessageBridge",
               "Preview"}

\* a call of destroy() on a component; lastCall counts the calls made in a row
Called(component) ==
  /\ lastCall.component = component => lastCall.times < MaxDestroys
  /\ lastCall' = [component |-> component,
                  times |-> IF lastCall.component = component
                              THEN lastCall.times + 1 ELSE 1,
                  ops |-> lastCall.ops]

\* any other operation; ops counts them
Other ==
  /\ lastCall.ops < MaxOps
  /\ lastCall' = [component |-> "none", times |-> 0, ops |-> lastCall.ops + 1]

\* a document in which each annotated node is the child of the one before
InitLife ==
  /\ kids = KidsOf([n \in 1..MaxPatchNodes |-> n - 1])
  /\ attrs = [n \in Nodes |-> IF n <= MaxPatchNodes THEN Attrs("r2", "body")
                               ELSE Attrs(NoAttr, NoAttr)]
  /\ content = [n \in Nodes |-> "initial"]
  /\ hostChanges = 0
  /\ InitRegistry
  /\ QuietUpdater
  /\ InitBridge
  /\ readyTimer = TRUE
  /\ onReadyCalls = 0
  /\ QuietOrigin /\ QuietSave
  /\ overlay = NewOverlay
  /\ preview \in {NewPreview(debug) : debug \in BOOLEAN}
  /\ lastCall = NoCall
  /\ QuietWindow

NextLife ==
  \/ /\ handleMessage(OriginApp, InitMessage) /\ Other
     /\ UNCHANGED <<readyVars, overlay, preview, windowVars, originVars, domVars, registryVars,
                    updaterVars, saveVars>>
  \/ /\ OnReady /\ Other
     /\ UNCHANGED <<overlay, preview, windowVars, originVars, domVars, registryVars, updaterVars,
                    saveVars>>
  \/ /\ Len(calls) < MaxCalls /\ handleFieldUpdate("u1") /\ Other
     /\ UNCHANGED <<bridgeVars, readyVars, overlay, preview, windowVars, originVars, domVars,
                    registryVars, saveVars>>
  \/ /\ TimerFire /\ Other
     /\ UNCHANGED <<bridgeVars, readyVars, overlay, preview, windowVars, originVars, saveVars>>
  \/ /\ subscribe("refresh") /\ Other
     /\ UNCHANGED <<bridgeVars, readyVars, overlay, preview, windowVars, originVars, domVars,
                    registryVars, updaterVars>>
  \/ /\ MouseMove /\ Other
     /\ UNCHANGED <<bridgeVars, readyVars, preview, windowVars, originVars, domVars, registryVars,
                    updaterVars, saveVars>>
  \/ /\ MouseLeave /\ Other
     /\ UNCHANGED <<bridgeVars, readyVars, preview, windowVars, originVars, domVars, registryVars,
                    updaterVars, saveVars>>
  \/ /\ HideTimerFire /\ Other
     /\ UNCHANGED <<bridgeVars, readyVars, preview, windowVars, originVars, domVars, registryVars,
                    updaterVars, saveVars>>
  \/ /\ RegistryDestroy /\ Called("FieldRegistry")
     /\ UNCHANGED <<bridgeVars, readyVars, overlay, preview, windowVars, originVars, updaterVars,
                    saveVars>>
  \/ /\ UpdaterDestroy /\ Called("ContentUpdater")
     /\ UNCHANGED <<bridgeVars, readyVars, overlay, preview, windowVars, originVars, saveVars>>
  \/ /\ OverlayDestroy /\ Called("OverlayManager")
     /\ UNCHANGED <<bridgeVars, readyVars, preview, windowVars, originVars, domVars, registryVars,
                    updaterVars, saveVars>>
  \/ /\ BridgeDestroy /\ Called("MessageBridge")
     /\ UNCHANGED <<readyVars, overlay, preview, windowVars, originVars, domVars, registryVars,
                    updaterVars, saveVars>>
  \/ /\ PreviewDestroy /\ Called("Preview")
     /\ UNCHANGED <<readyVars, originVars, domVars>>

SpecLife == InitLife /\ [][NextLife]_vars

\* everything but the record of the calls made
ComponentState ==
  <<bridgeVars, readyVars, domVars, registryVars, updaterVars, saveVars, overlay, preview,
    windowVars>>

\* C20: a second call of destroy() in a row, on FieldRegistry, ContentUpdater,
\* OverlayManager, MessageBridge or Preview, raises no error and changes
\* nothing in the component or the document: the index, the queue and the
\* subscriber set stay empty, the overlay nodes absent and the listeners
\* detached, the bridge not connected.
C20_DestroyIdempotent ==
  [][lastCall'.times >= 2 =>
       LET c == lastCall'.component
       IN /\ UNCHANGED ComponentState
          /\ ~overlay'.threw
          /\ c \in {"FieldRegistry", "Preview"} =>
               registryIsDestroyed' /\ registry' = <<>> /\ mutations' = <<>>
          /\ c \in {"ContentUpdater", "Preview"} =>
               updaterIsDestroyed' /\ \A k \in UpdateKeys : updateQueue'[k] = NoUpdate
          /\ c \in {"OverlayManager", "Preview"} =>
               /\ overlay'.isDestroyed /\ ~overlay'.listeners
               /\ ~overlay'.overlayElement /\ ~overlay'.editButtonElement
          /\ c \in {"MessageBridge", "Preview"} =>
               /\ bridgeIsDestroyed' /\ ~isConnected'
               /\ studioOrigin' = NullOrigin /\ messageQueue' = <<>>
          /\ c = "Preview" =>
               /\ SetMembers(saveCallbacks') = {}
               /\ ~preview'.editListener /\ ~preview'.global]_vars

\* Preview.destroy() was called twice in a row after the ready message was
\* sent, an update was made and the overlay was shown on a node
C20_Witness ==
  /\ lastCall.component = "Preview" /\ lastCall.times = 2
  /\ posted # <<>> /\ calls # <<>> /\ overlay.currentTarget # NoNode
  /\ bridgeIsDestroyed /\ registryIsDestroyed /\ updaterIsDestroyed
  /\ overlay.isDestroyed /\ ~overlay.overlayElement
  /\ registry = <<>>

----------------------------------------------------------------------------
(* The ready broadcast of the bridge *)

\* C22: a call of sendReadyMessage on a bridge that is not destroyed calls
\* postMessage with the ready message once for each allow-list entry, in
\* order, whether or not a peer origin is established; it leaves the outbound
\* queue and the connection alone; a call that throws does not stop the
\* calls for the other entries; the result is true iff some call did not throw.
C22_ReadyBroadcast ==
  [][(lastSend'.stamp # lastSend.stamp /\ lastSend'.kind = "ready" /\ ~bridgeIsDestroyed)
       => /\ Len(posted') = Len(posted) + Len(allowedOrigins)
          /\ \A i \in 1..Len(allowedOrigins) :
               posted'[Len(posted) + i] =
                 Post(ReadyMessage, allowedOrigins[i], "sendReadyMessage")
          /\ SubSeq(posted', 1, Len(posted)) = posted
          /\ UNCHANGED <<messageQueue, isConnected, studioOrigin>>
          /\ lastSend'.result = (\E i \in 1..Len(allowedOrigins) : i \notin lastSend'.failed)]_vars

\* the ready message was broadcast while connected, with messages waiting
\* nowhere, the call for the first entry threw and the call returned true
C22_Witness ==
  /\ lastSend.kind = "ready" /\ lastSend.result /\ lastSend.failed = {1}
  /\ isConnected /\ ~bridgeIsDestroyed
  /\ Len(posted) >= 2
  /\ posted[Len(posted)] = Post(ReadyMessage, allowedOrigins[2], "sendReadyMessage")
  /\ posted[Len(posted) - 1] = Post(ReadyMessage, allowedOrigins[1], "sendReadyMessage")

----------------------------------------------------------------------------
(* Preview in either mode: startup, hover, activation, teardown *)

\* a node that carries a record id, a field id, a locale and a component
\* chain, and a field node below it that inherits its record id
PageAttrs(entry, field, locale, chain) ==
  [entry |-> entry, field |-> field, locale |-> locale, chain |-> chain]

InitPage ==
  /\ kids = KidsOf([n \in 1..2 |-> n - 1])
  /\ attrs = [n \in Nodes |->
       CASE n = 1 -> PageAttrs("r1", "body", "en", ChainJsonSpaced)
         [] n = 2 -> PageAttrs(NoAttr, "title", "en", "{oops")
         [] OTHER -> PageAttrs(NoAttr, NoAttr, NoAttr, NoAttr)]
  /\ content = [n \in Nodes |-> "initial"]
  /\ hostChanges = 0

\* configurations and outcomes of the top-window test: a forced mode, for
\* which the test is not made, and no mode with each outcome of the test
Setups ==
  {<<PreviewConfig(FALSE, mc[1], autoConnect, fallbackToNewTab), mc[2]>> :
     mc \in {<<"iframe", "self">>, <<"standalone", "other">>, <<"unset", "self">>,
             <<"unset", "other">>},
     autoConnect \in {"unset"},
     fallbackToNewTab \in {"unset", "true", "false"}}

\* the constructor has returned; in iframe mode the bridge listens and the
\* timer of its onReady is pending
InitPreview ==
  /\ preview \in {construct(setup[1], setup[2]) : setup \in Setups}
  /\ InitPage
  /\ InitRegistry
  /\ InitBridge
  /\ readyTimer = preview.messageBridge
  /\ onReadyCalls = 0
  /\ overlay = NewOverlay
  /\ lastCall = NoCall
  /\ QuietWindow /\ QuietOrigin /\ QuietUpdater /\ QuietSave

NextPreview ==
  \/ /\ OnReady
     /\ UNCHANGED <<previewVars, originVars, domVars, registryVars, updaterVars, saveVars>>
  \/ /\ preview.messageBridge /\ handleMessage(OriginApp, InitMessage)
     /\ UNCHANGED <<readyVars, previewVars, originVars, domVars, registryVars, updaterVars,
                    saveVars>>
  \/ /\ MouseMove
     /\ UNCHANGED <<bridgeVars, readyVars, preview, lastCall, windowVars, originVars, domVars,
                    registryVars, updaterVars, saveVars>>
  \/ /\ EditClick
     /\ UNCHANGED <<readyVars, preview, lastCall, focus, instances, debugHandle,
                    originVars, domVars, registryVars, updaterVars, saveVars>>
  \/ /\ PreviewDestroy
     /\ UNCHANGED <<readyVars, lastCall, originVars, domVars>>

SpecPreview == InitPreview /\ [][NextPreview]_vars

ReadyPosts(seq) == SelectSeq(seq, LAMBDA post : post.via = "sendReadyMessage")

\* C21: the ready message is posted only by the timer callback that the
\* bridge constructor scheduled, hence in a later task than construction and
\* with the message listener attached (the bridge exists and is not
\* destroyed); only in iframe mode with autoConnect; the callback runs at
\* most once, and when it runs on a live bridge with autoConnect the message
\* is posted once to every allow-list entry.  A Preview destroyed before the
\* callback runs posts nothing.
C21_ReadyAfterListener ==
  [][/\ readyTimer' => readyTimer
     /\ ReadyPosts(posted') # ReadyPosts(posted) =>
          /\ readyTimer /\ ~readyTimer'
          /\ preview.mode = "iframe" /\ preview.messageBridge /\ preview.autoConnect
          /\ ~bridgeIsDestroyed
          /\ ReadyPosts(posted) = <<>>
          /\ ReadyPosts(posted') = readyPosts(allowedOrigins, {})
     /\ (readyTimer /\ ~readyTimer' /\ preview.autoConnect /\ ~bridgeIsDestroyed) =>
          ReadyPosts(posted') = readyPosts(allowedOrigins, {})
     /\ (readyTimer /\ ~readyTimer' /\ bridgeIsDestroyed) => posted' = posted]_vars

\* C21 as stated: every Preview in iframe mode with autoConnect has posted
\* the ready message once its timer callback has run
C21_ExactlyOnce ==
  [][(readyTimer /\ ~readyTimer' /\ preview.mode = "iframe" /\ preview.autoConnect) =>
       ReadyPosts(posted') = readyPosts(allowedOrigins, {})]_vars

\* the ready message was broadcast and the handshake was then completed
C21_Witness ==
  /\ ReadyPosts(posted) = readyPosts(allowedOrigins, {})
  /\ ~readyTimer /\ onReadyCalls = 1
  /\ preview.autoConnect /\ isConnected

\* an activation: a step in which the overlay dispatched hygraph-edit-click
Activated == overlay'.dispatched.stamp # overlay.dispatched.stamp

\* the field-click message and the editor URL for the record id of the event
\* and the field id, locale and chain of its node
RoutedMessage(registeredElement) ==
  [ClickMessage(attrs, registeredElement.element)
     EXCEPT !.entryId = registeredElement.entryId]

RoutedUrl(registeredElement) ==
  LET el == registeredElement.element
  IN buildStudioUrl(registeredElement.entryId, attrs[el].field, attrs[el].locale,
                    parseComponentChain(attrs[el].chain))

\* C23: in iframe mode an activation on a connected bridge posts one
\* field-click for the node to the peer origin and opens no URL; on a bridge
\* that is not connected it opens the editor URL iff fallbackToNewTab is not
\* false; in standalone mode every activation opens the editor URL and posts
\* nothing.
C23_ActivationRouting ==
  [][(Activated /\ preview.editListener) =>
       LET re == overlay'.dispatched.detail
       IN IF preview.mode = "iframe"
            THEN IF isConnected
                   THEN /\ posted' = Append(posted,
                              Post(RoutedMessage(re), studioOrigin, "sendMessage"))
                        /\ opened' = opened
                   ELSE /\ posted' = posted
                        /\ opened' = IF preview.config.fallbackToNewTab # "false"
                                       THEN Append(opened, RoutedUrl(re)) ELSE opened
            ELSE /\ opened' = Append(opened, RoutedUrl(re))
                 /\ posted' = posted]_vars

\* C24: an activation on a node that carries a field id and inherits its
\* record id dispatches an event with the ancestor's record id and the field
\* id, and Preview posts a field-click (iframe mode, connected) or opens the
\* editor URL (standalone mode) for that record id and field id.
C24_InheritedRecordRouted ==
  [][(Activated /\ preview.editListener
        /\ attrs[overlay'.dispatched.detail.element].entry = NoAttr) =>
       LET re == overlay'.dispatched.detail
       IN /\ re.entryId = attrs[closest(kids, attrs, re.element)].entry
          /\ re.fieldApiId = attrs[re.element].field
          /\ (preview.mode = "iframe" /\ isConnected) =>
               /\ Len(posted') = Len(posted) + 1
               /\ posted'[Len(posted')].message.type = "field-click"
               /\ posted'[Len(posted')].message.entryId = re.entryId
               /\ posted'[Len(posted')].message.fieldApiId = re.fieldApiId
          /\ preview.mode = "standalone" =>
               /\ Len(opened') = Len(opened) + 1
               /\ opened'[Len(opened')].entryId = re.entryId
               /\ opened'[Len(opened')].fieldApiId = re.fieldApiId]_vars

----------------------------------------------------------------------------
(* OverlayManager under pointer movement *)

\* showOverlay(element, registeredElement) called by the host
ShowOverlay ==
  \E element \in {n \in Nodes : ParentOf(kids, n) # NoNode /\ attrs[n].entry # NoAttr} :
    overlay' = showOverlay(overlay, element,
                           RegisteredElement(element, attrs[element].entry,
                                             attrs[element].field))

\* hideOverlay() called by the host
HideOverlay == overlay' = hideOverlay(overlay)

HoverAttrs == {Attrs("r1", NoAttr), Attrs(NoAttr, "title"), Attrs(NoAttr, NoAttr)}

InitOverlay ==
  /\ kids \in {KidsOf(par) : par \in TreeShapes(MaxNodes)}
  /\ attrs \in [Nodes -> HoverAttrs]
  /\ content = [n \in Nodes |-> "initial"]
  /\ hostChanges = 0
  /\ overlay \in {[NewOverlay EXCEPT !.enabled = overlayEnabled] : overlayEnabled \in BOOLEAN}
  /\ preview = NewPreview(FALSE)
  /\ lastCall = NoCall
  /\ InitBridge
  /\ QuietWindow /\ QuietReady /\ QuietOrigin /\ QuietRegistry /\ QuietUpdater /\ QuietSave

NextOverlay ==
  \/ MouseMove /\ UNCHANGED <<bridgeVars, readyVars, preview, lastCall, windowVars, originVars,
                               domVars, registryVars, updaterVars, saveVars>>
  \/ MouseLeave /\ UNCHANGED <<bridgeVars, readyVars, preview, lastCall, windowVars, originVars,
                                domVars, registryVars, updaterVars, saveVars>>
  \/ HideTimerFire /\ UNCHANGED <<bridgeVars, readyVars, preview, lastCall, windowVars,
                                   originVars, domVars, registryVars, updaterVars, saveVars>>
  \/ ShowOverlay /\ UNCHANGED <<bridgeVars, readyVars, preview, lastCall, windowVars,
                                 originVars, domVars, registryVars, updaterVars, saveVars>>
  \/ HideOverlay /\ UNCHANGED <<bridgeVars, readyVars, preview, lastCall, windowVars,
                                 originVars, domVars, registryVars, updaterVars, saveVars>>
  \/ OverlayDestroy /\ UNCHANGED <<bridgeVars, readyVars, preview, lastCall, windowVars,
                                    originVars, domVars, registryVars, updaterVars, saveVars>>

SpecOverlay == InitOverlay /\ [][NextOverlay]_vars

Hovering(o) == o.display = "block" /\ o.currentTarget # NoNode

\* a mouse event on a new target: only MouseMove moves the pointer to a
\* target inside the document
MovedTo(target) == overlay'.pointer = target /\ overlay.pointer # target

\* C25: with the overlay enabled and shown on node A, a mouse move whose
\* closest annotated ancestor-or-self is another node B that resolves to a
\* record id leaves the overlay shown on B after that one event, its edit
\* button holding B's record and field id; a move to a target whose closest
\* annotated node is the current one, or onto the edit button, changes nothing.
C25_Retargeting ==
  [][\A target \in {Body, EditButton} \cup Nodes :
       (MovedTo(target) /\ overlay.enabled /\ Hovering(overlay)) =>
         LET B == closestHygraph(kids, attrs, target)
         IN /\ (B # NoNode /\ B # overlay.currentTarget /\ closest(kids, attrs, B) # NoNode) =>
                 /\ Hovering(overlay') /\ overlay'.currentTarget = B
                 /\ overlay'.registered =
                      RegisteredElement(B, attrs[closest(kids, attrs, B)].entry, attrs[B].field)
            /\ (target = EditButton \/ B = overlay.currentTarget) =>
                 overlay' = [overlay EXCEPT !.pointer = target,
                                            !.previous = overlay.currentTarget]]_vars

\* the overlay went from node A to another node B in one mouse event, and a
\* move inside B or onto the edit button followed
C25_Witness ==
  /\ Hovering(overlay) /\ overlay.enabled
  /\ overlay.previous \in Nodes /\ overlay.previous # overlay.currentTarget
  /\ closestHygraph(kids, attrs, overlay.pointer) = overlay.currentTarget
  /\ attrs[overlay.currentTarget].entry = NoAttr

\* C26: when the hide timer fires while the pointer is back on an annotated
\* node or on the edit button, the overlay stays displayed.
C26_GraceDelay ==
  [][(overlay.hideTimer /\ ~overlay'.hideTimer /\ Hovering(overlay)
        /\ (overlay.pointer = EditButton
              \/ closestHygraph(kids, attrs, overlay.pointer) # NoNode)) =>
       Hovering(overlay')]_vars

----------------------------------------------------------------------------
(* The set of save callbacks *)

\* the host subscribes and unsubscribes a callback that resolves and one
\* that throws while content-saved messages for one record arrive
NextSubscribe ==
  \/ /\ \E cb \in {"refresh", "thrower"} : subscribe(cb)
     /\ UNCHANGED <<bridgeVars, readyVars, previewVars, originVars, domVars, registryVars,
                    updaterVars>>
  \/ /\ \E cb \in {"refresh", "thrower"} : unsubscribe(cb)
     /\ UNCHANGED <<bridgeVars, readyVars, previewVars, originVars, domVars, registryVars,
                    updaterVars>>
  \/ /\ Len(deliveries) < MaxDeliveries
     /\ handleMessage(OriginApp, SavedFor(Str("r1")))
     /\ handleStudioMessage(SavedFor(Str("r1")))
     /\ UNCHANGED <<readyVars, previewVars, originVars, domVars, registryVars, updaterVars>>
  \/ /\ Settle
     /\ UNCHANGED <<bridgeVars, readyVars, previewVars, originVars, domVars, registryVars,
                    updaterVars>>

SpecSubscribe == InitSave /\ [][NextSubscribe]_vars

\* C27: in the delivery of a content-saved message during which no
\* subscribe, unsubscribe or destroy call is made, a callback is invoked
\* once if the last subscribe/unsubscribe call made for it before the message
\* was a subscribe, however many subscribe calls there were, and not at all
\* if it was an unsubscribe or there was none.
C27_SetOfCallbacks ==
  \A d \in DOMAIN deliveries :
    ~deliveries[d].disturbed =>
      \A cb \in Callbacks :
        LET n == Cardinality(InvocationsOf(d, cb))
        IN IF deliveries[d].calls[cb].last = "subscribe"
             THEN n <= 1 /\ (deliveries[d].pos = 0 => n = 1)
             ELSE n = 0

\* a callback subscribed twice was invoked once by one message; after one
\* unsubscribe call it was not invoked by the next
C27_Witness ==
  /\ Len(deliveries) = 2
  /\ \A d \in 1..2 : deliveries[d].pos = 0 /\ ~deliveries[d].disturbed
  /\ deliveries[1].calls["refresh"] = [last |-> "subscribe", subscribes |-> 2]
  /\ deliveries[2].calls["refresh"] = [last |-> "unsubscribe", subscribes |-> 2]
  /\ Cardinality(InvocationsOf(1, "refresh")) = 1
  /\ Cardinality(InvocationsOf(2, "refresh")) = 0

----------------------------------------------------------------------------
(* Several Preview instances in one window and the debug handle *)

\* destroy() deleting the handle whichever instance it refers to
releaseHandleOfAny(handle, instance) == NoInstance

\* the end of destroy(): the handle is deleted when it is this instance
releaseHandle(handle, instance) == IF handle = instance THEN NoInstance ELSE handle

\* new Preview(config): the instance is entered under the next number and,
\* with config.debug, assigned to window.__HYGRAPH_PREVIEW__
ConstructInstance ==
  /\ Len(instances) < MaxInstances
  /\ \E debug \in BOOLEAN :
       /\ instances' = Append(instances, [debug |-> debug, destroyed |-> FALSE])
       /\ debugHandle' = IF debug THEN Len(instances) + 1 ELSE debugHandle

\* destroy() of one of the instances, a repeated call included
DestroyInstance ==
  \E instance \in DOMAIN instances :
    /\ instances' = [instances EXCEPT ![instance].destroyed = TRUE]
    /\ debugHandle' = releaseHandle(debugHandle, instance)

InitHandle ==
  /\ InitBridge /\ QuietReady /\ QuietPreview
  /\ QuietOrigin /\ QuietDom /\ QuietRegistry /\ QuietUpdater /\ QuietSave

NextHandle ==
  \/ /\ ConstructInstance
     /\ UNCHANGED <<bridgeVars, readyVars, overlay, preview, lastCall, opened, focus,
                    originVars, domVars, registryVars, updaterVars, saveVars>>
  \/ /\ DestroyInstance
     /\ UNCHANGED <<bridgeVars, readyVars, overlay, preview, lastCall, opened, focus,
                    originVars, domVars, registryVars, updaterVars, saveVars>>

SpecHandle == InitHandle /\ [][NextHandle]_vars

\* C28: the handle, when present, is an instance that was constructed with
\* debug and is not destroyed; it changes only by the construction of an
\* instance with debug, which becomes the handle, and by destroy() of the
\* instance it refers to, which removes it; destroy() of another instance and
\* the construction of an instance without debug leave it as it is.
C28_DebugHandle ==
  /\ [](debugHandle # NoInstance =>
          /\ debugHandle \in DOMAIN instances
          /\ instances[debugHandle].debug /\ ~instances[debugHandle].destroyed)
  /\ [][/\ Len(instances') > Len(instances) =>
            debugHandle' = IF instances'[Len(instances')].debug
                             THEN Len(instances') ELSE debugHandle
        /\ \A instance \in DOMAIN instances :
             (~instances[instance].destroyed /\ instances'[instance].destroyed) =>
               debugHandle' = IF debugHandle = instance THEN NoInstance ELSE debugHandle
        /\ instances' = instances => debugHandle' = debugHandle]_vars

\* the handle refers to the second of two debug instances after the first
\* was destroyed, and a third instance without debug was constructed
C28_Witness ==
  /\ Len(instances) = 3
  /\ instances[1].debug /\ instances[1].destroyed
  /\ instances[2].debug /\ ~instances[2].destroyed
  /\ ~instances[3].debug
  /\ debugHandle = 2

----------------------------------------------------------------------------
(* The mode of a Preview from construction to teardown *)

\* every configured mode with every outcome of the top-window test
InitMode ==
  /\ preview \in {construct(PreviewConfig(debug, mode, autoConnect, "unset"), top) :
                    debug \in BOOLEAN, mode \in {"unset", "auto", "iframe", "standalone"},
                    autoConnect \in {"unset", "false"}, top \in TopChecks}
  /\ InitPage
  /\ InitRegistry
  /\ InitBridge
  /\ readyTimer = preview.messageBridge
  /\ onReadyCalls = 0
  /\ overlay = NewOverlay
  /\ lastCall = NoCall
  /\ QuietWindow /\ QuietOrigin /\ QuietUpdater /\ QuietSave

NextMode ==
  \/ /\ OnReady
     /\ UNCHANGED <<previewVars, originVars, domVars, registryVars, updaterVars, saveVars>>
  \/ /\ preview.messageBridge /\ handleMessage(OriginApp, InitMessage)
     /\ UNCHANGED <<readyVars, previewVars, originVars, domVars, registryVars, updaterVars,
                    saveVars>>
  \/ /\ PreviewDestroy
     /\ UNCHANGED <<readyVars, lastCall, originVars, domVars>>

SpecMode == InitMode /\ [][NextMode]_vars

\* C29: the mode is the configured one when that is iframe or standalone;
\* otherwise it is standalone exactly when window.self === window.top holds,
\* and iframe when the comparison throws; it never changes, and there is a
\* MessageBridge exactly when the mode is iframe.
C29_ModeDetection ==
  /\ [](/\ preview.config.mode \in {"iframe", "standalone"} =>
             preview.mode = preview.config.mode
        /\ preview.config.mode \notin {"iframe", "standalone"} =>
             /\ preview.mode \in {"iframe", "standalone"}
             /\ preview.mode = "standalone" <=> preview.top = "self"
             /\ preview.top = "throws" => preview.mode = "iframe"
        /\ preview.messageBridge <=> preview.mode = "iframe")
  /\ [][preview'.mode = preview.mode
           /\ preview'.messageBridge = preview.messageBridge]_vars

\* a Preview configured with mode auto whose top-window test threw runs in
\* iframe mode, has broadcast ready and was then destroyed
C29_Witness ==
  /\ preview.config.mode = "auto" /\ preview.top = "throws"
  /\ preview.mode = "iframe" /\ preview.messageBridge
  /\ posted # <<>> /\ bridgeIsDestroyed /\ ~preview.editListener

----------------------------------------------------------------------------
(* Preview handling field-focus messages *)

FocusMessage(entryId, fieldApiId, componentChain, locale) ==
  Message(Str("field-focus"), Num("1"), Undefined, entryId, fieldApiId, Undefined,
          Undefined) @@ [componentChain |-> componentChain, locale |-> locale]

\* componentChainRaw of a registered element: the attribute as it was when
\* the node was registered; the document of this specification does not change
componentChainRaw(re) == attrs[re.element].chain

matchesChain(re, componentChain) ==
  componentChainRaw(re) # NoAttr /\ componentChainRaw(re) = stringify(componentChain)

\* the first matching element gets scrollIntoView, the highlight class and a
\* timer that removes the class; the nodes of the document are no input controls
highlightFirst(elements) ==
  IF elements # <<>>
    THEN focus' = [focus EXCEPT !.scrolled = Append(@, elements[1].element),
                                !.highlighted = @ \cup {elements[1].element},
                                !.timers = Append(@, elements[1].element)]
    ELSE UNCHANGED focus

\* handleFieldFocus that does not look at the component chain
handleFieldFocusAnyChain(message) ==
  IF preview.config.onFieldFocus
    THEN focus' = [focus EXCEPT !.handler = Append(@, <<message.fieldApiId[2], message.locale>>)]
    ELSE highlightFirst(getElementsForEntryField(registry, message.entryId[2],
                                                 message.fieldApiId[2]))

handleFieldFocus(message) ==
  IF preview.config.onFieldFocus
    THEN focus' = [focus EXCEPT !.handler = Append(@, <<message.fieldApiId[2], message.locale>>)]
    ELSE LET elements == getElementsForEntryField(registry, message.entryId[2],
                                                  message.fieldApiId[2])
         IN highlightFirst(IF message.componentChain # NoChain
                             THEN SelectSeq(elements,
                                    LAMBDA re : matchesChain(re, message.componentChain))
                             ELSE elements)

\* accepted field-focus messages with and without a chain, one from an origin
\* that is not allowed and one without a fieldApiId
FocusEvents ==
  {<<OriginApp, FocusMessage(Str(entryId), Str("title"), chain, "en")>> :
     entryId \in {"r1", "r2"}, chain \in {NoChain, ChainLinks, ChainOther}}
  \cup {<<OriginOrg, FocusMessage(Str("r1"), Str("title"), NoChain, "en")>>,
        <<OriginApp, FocusMessage(Str("r1"), Undefined, NoChain, "en")>>}

\* a window `message` event: MessageBridge.handleMessage, which forwards the
\* messages it accepts to handleStudioMessage and so to handleFieldFocus
FocusEvent ==
  \E event \in FocusEvents :
    /\ Len(focus.scrolled) + Len(focus.handler) < MaxFocus
    /\ handleMessage(event[1], event[2])
    /\ IF lastEvent'.forwarded THEN handleFieldFocus(event[2]) ELSE UNCHANGED focus

\* the callback of the setTimeout(..., 2000) of handleFieldFocus
HighlightTimerFire ==
  /\ focus.timers # <<>>
  /\ focus' = [focus EXCEPT !.highlighted = @ \ {Head(focus.timers)},
                            !.timers = Tail(@)]

FocusAttrs ==
  {PageAttrs("r1", "title", NoAttr, NoAttr), PageAttrs("r1", "title", NoAttr, ChainJson),
   PageAttrs("r1", "title", NoAttr, ChainJsonSpaced),
   PageAttrs(NoAttr, "title", NoAttr, ChainOtherJson),
   PageAttrs("r2", NoAttr, NoAttr, NoAttr)}

\* the nodes side by side below the body, or each the child of the one before
InitFocus ==
  /\ kids \in {KidsOf([n \in Nodes |-> Body]), KidsOf([n \in Nodes |-> n - 1])}
  /\ attrs \in [Nodes -> FocusAttrs]
  /\ content = [n \in Nodes |-> "initial"]
  /\ hostChanges = 0
  /\ InitRegistry
  /\ InitBridge
  /\ preview \in {construct([PreviewConfig(FALSE, "iframe", "unset", "unset")
                               EXCEPT !.onFieldFocus = custom], "other") :
                    custom \in BOOLEAN}
  /\ overlay = NewOverlay
  /\ lastCall = NoCall
  /\ QuietWindow /\ QuietReady /\ QuietOrigin /\ QuietUpdater /\ QuietSave

NextFocus ==
  \/ /\ FocusEvent
     /\ UNCHANGED <<readyVars, overlay, preview, lastCall, opened, instances, debugHandle,
                    originVars, domVars, registryVars, updaterVars, saveVars>>
  \/ /\ HighlightTimerFire
     /\ UNCHANGED <<bridgeVars, readyVars, overlay, preview, lastCall, opened, instances,
                    debugHandle, originVars, domVars, registryVars, updaterVars, saveVars>>

SpecFocus == InitFocus /\ [][NextFocus]_vars

\* the registered elements of (entryId, fieldApiId) that a message with this
\* chain is about, in the order the registry returns them
FocusCandidates(message) ==
  SelectSeq(getElementsForEntryField(registry, message.entryId[2], message.fieldApiId[2]),
            LAMBDA re : message.componentChain # NoChain =>
                          attrs[re.element].chain = stringify(message.componentChain))

\* C30: an accepted field-focus message, with no onFieldFocus configured,
\* scrolls the first node the registry returns for its entryId and
\* fieldApiId (among those whose chain attribute is the JSON text of the
\* message's chain, when it has one) into view and gives it the highlight
\* class, and touches no other node; without such a node nothing changes;
\* with onFieldFocus configured only that handler is called.
C30_FieldFocus ==
  [][(lastEvent'.stamp # lastEvent.stamp /\ lastEvent'.forwarded
        /\ lastEvent'.data.type = Str("field-focus")) =>
       LET message == lastEvent'.data
           candidates == FocusCandidates(message)
       IN IF preview.config.onFieldFocus
            THEN /\ focus'.handler = Append(focus.handler, <<message.fieldApiId[2], message.locale>>)
                 /\ focus'.scrolled = focus.scrolled
                 /\ focus'.highlighted = focus.highlighted
          ELSE IF candidates = <<>> THEN focus' = focus
          ELSE /\ focus'.scrolled = Append(focus.scrolled, candidates[1].element)
               /\ focus'.highlighted = focus.highlighted \cup {candidates[1].element}
               /\ focus'.handler = focus.handler]_vars

\* a message with a chain highlighted a node that is not the first one
\* registered for the record and field
C30_Witness ==
  /\ focus.scrolled # <<>> /\ lastEvent.forwarded
  /\ lastEvent.data.type = Str("field-focus")
  /\ lastEvent.data.componentChain = ChainLinks
  /\ LET all == getElementsForEntryField(registry, "r1", "title")
     IN /\ Len(all) >= 2
        /\ focus.scrolled[Len(focus.scrolled)] # all[1].element
        /\ focus.scrolled[Len(focus.scrolled)] \in focus.highlighted

----------------------------------------------------------------------------
(* Preview handling field-update messages, with the sync options of its config *)

\* config.sync.fieldUpdate and config.onFieldUpdate added to a configuration
WithSync(config, fieldUpdate, onFieldUpdate) ==
  config @@ [syncFieldUpdate |-> fieldUpdate, onFieldUpdate |-> onFieldUpdate]

\* capabilities.fieldUpdateSync of the ready message: sync?.fieldUpdate ?? false
fieldUpdateSync(config) == config.syncFieldUpdate = "true"

UpdateMessage(id) ==
  Message(Str("field-update"), Num("1"), Undefined, Str(Updates[id].entryId),
          Str(Updates[id].fieldApiId), Str(Updates[id].fieldType), Updates[id].newValue)

\* handleStudioMessage for a field-update message: the host's onFieldUpdate
\* when there is one (it does not touch the updater), else updateField
routeFieldUpdate(id) ==
  IF preview.config.onFieldUpdate
    THEN UNCHANGED updaterVars
    ELSE handleFieldUpdate(id)

\* a window `message` event carrying a field-update
FieldUpdateEvent ==
  \E origin \in {OriginApp, OriginEvil}, id \in UpdateIds :
    /\ Len(calls) < MaxCalls
    /\ handleMessage(origin, UpdateMessage(id))
    /\ IF lastEvent'.forwarded THEN routeFieldUpdate(id) ELSE UNCHANGED updaterVars
    /\ UNCHANGED <<domVars, registryVars>>

InitSync ==
  /\ kids = KidsOf([n \in 1..MaxPatchNodes |-> Body])
  /\ attrs = [n \in Nodes |->
       CASE n = 1 -> Attrs("r2", "body")
         [] n = 2 -> Attrs("r2", "price")
         [] OTHER -> Attrs(NoAttr, NoAttr)]
  /\ content = [n \in Nodes |-> "initial"]
  /\ hostChanges = 0
  /\ InitRegistry
  /\ QuietUpdater
  /\ InitBridge
  /\ preview \in {construct(WithSync(PreviewConfig(FALSE, "iframe", "unset", "unset"),
                                     fieldUpdate, custom), "other") :
                    fieldUpdate \in {"unset", "true", "false"}, custom \in BOOLEAN}
  /\ overlay = NewOverlay
  /\ lastCall = NoCall
  /\ readyTimer = TRUE
  /\ onReadyCalls = 0
  /\ QuietWindow /\ QuietOrigin /\ QuietSave

NextSync ==
  \/ /\ OnReady
     /\ UNCHANGED <<previewVars, originVars, domVars, registryVars, updaterVars, saveVars>>
  \/ /\ handleMessage(OriginApp, InitMessage)
     /\ UNCHANGED <<readyVars, previewVars, originVars, domVars, registryVars, updaterVars,
                    saveVars>>
  \/ /\ FieldUpdateEvent
     /\ UNCHANGED <<readyVars, previewVars, originVars, saveVars>>
  \/ /\ TimerFire
     /\ UNCHANGED <<bridgeVars, readyVars, previewVars, originVars, saveVars>>

SpecSync == InitSync /\ [][NextSync]_vars

\* C31: unless sync.fieldUpdate is true in the configuration, an accepted
\* field-update message does not change the rendered content of any node.
C31_UpdatesAreOptIn ==
  [][~fieldUpdateSync(preview.config) => content' = content]_vars

----------------------------------------------------------------------------
(* Placement of the edit button *)

buttonWidth == 72
buttonHeight == 32
padding == 4

Max(a, b) == IF a >= b THEN a ELSE b
Min(a, b) == IF a <= b THEN a ELSE b

\* element.getBoundingClientRect()
Rect(left, top, width, height) ==
  [left |-> left, top |-> top, right |-> left + width, bottom |-> top + height,
   width |-> width, height |-> height]

\* style.left and style.top that updateEditButton gives the edit button
updateEditButton(rect) ==
  LET top0 == rect.top + padding
      left0 == rect.right - buttonWidth - padding
      left1 == IF left0 < rect.left + padding THEN rect.left + padding ELSE left0
      top1 == IF top0 + buttonHeight + padding > rect.bottom
                THEN Max(rect.top + padding, rect.bottom - buttonHeight - padding)
                ELSE top0
  IN [left |-> Max(rect.left + padding, Min(left1, rect.right - buttonWidth - padding)),
      top |-> Max(rect.top + padding, Min(top1, rect.bottom - buttonHeight - padding))]

\* sizes on both sides of buttonWidth + 2 * padding and buttonHeight + 2 * padding
NodeRects ==
  {Rect(left, top, width, height) :
     left \in {0, 10}, top \in {0, 5},
     width \in {40, 75, 76, 79, 80, 200}, height \in {20, 35, 36, 39, 40, 100}}

\* the part of the overlay state that is layout: the bounding rectangle of the
\* node, the rectangle given to the overlay element, the place of the button
NoPlace == [left |-> 0, top |-> 0]
Layout(rect) == [rect |-> rect, box |-> Rect(0, 0, 0, 0), button |-> NoPlace]

\* showOverlay(element, registeredElement) with the positions it computes
PlaceOverlay ==
  /\ overlay.currentTarget = NoNode
  /\ overlay' = LET o == showOverlay(overlay, 1, RegisteredElement(1, "r1", "title"))
                IN IF o = overlay THEN overlay
                   ELSE [o EXCEPT !.box = overlay.rect,
                                  !.button = updateEditButton(overlay.rect)]

\* the page scrolls or the window is resized while the overlay is shown: the
\* node gets another bounding rectangle, handleScroll / handleResize call
\* updateOverlayPosition only
ScrollOrResize ==
  \E rect \in NodeRects :
    /\ rect.width = overlay.rect.width /\ rect.height = overlay.rect.height
    /\ rect # overlay.rect
    /\ overlay' = [overlay EXCEPT !.rect = rect,
                                  !.box = IF overlay.currentTarget # NoNode /\ overlay.overlayElement
                                            THEN rect ELSE @]

InitButton ==
  /\ kids = KidsOf([n \in 1..1 |-> Body])
  /\ attrs = [n \in Nodes |-> IF n = 1 THEN Attrs("r1", "title") ELSE Attrs(NoAttr, NoAttr)]
  /\ content = [n \in Nodes |-> "initial"]
  /\ hostChanges = 0
  /\ overlay \in {NewOverlay @@ Layout(rect) : rect \in NodeRects}
  /\ preview = NewPreview(FALSE)
  /\ lastCall = NoCall
  /\ InitBridge
  /\ QuietWindow /\ QuietReady /\ QuietOrigin /\ QuietRegistry /\ QuietUpdater /\ QuietSave

NextButton ==
  \/ PlaceOverlay /\ UNCHANGED <<bridgeVars, readyVars, preview, lastCall, windowVars,
                                  originVars, domVars, registryVars, updaterVars, saveVars>>
  \/ ScrollOrResize /\ UNCHANGED <<bridgeVars, readyVars, preview, lastCall, windowVars,
                                    originVars, domVars, registryVars, updaterVars, saveVars>>
  \/ HideOverlay /\ UNCHANGED <<bridgeVars, readyVars, preview, lastCall, windowVars,
                                 originVars, domVars, registryVars, updaterVars, saveVars>>

SpecButton == InitButton /\ [][NextButton]_vars

\* the 72 by 32 rectangle at a place lies within a rectangle
ButtonWithin(place, rect) ==
  /\ rect.left <= place.left /\ place.left + buttonWidth <= rect.right
  /\ rect.top <= place.top /\ place.top + buttonHeight <= rect.bottom

\* C32: while the overlay is shown on a node, the edit button's rectangle
\* (72 by 32) lies within the node's bounding rectangle, whatever the node's
\* size and position, also for nodes narrower than 80 or shorter than 40.
C32_ButtonInsideNode ==
  Hovering(overlay) => ButtonWithin(overlay.button, overlay.rect)

----------------------------------------------------------------------------
(* Preview in standalone mode: window `message` events *)

\* a window `message` event: it reaches MessageBridge.handleMessage when a
\* bridge was constructed, and then handleStudioMessage when it is accepted;
\* without a bridge the window has no listener for it (seen stays FALSE)
WindowMessage(origin, data, id) ==
  IF preview.messageBridge
    THEN /\ handleMessage(origin, data)
         /\ IF lastEvent'.forwarded
              THEN /\ handleStudioMessage(data)
                   /\ IF data.type[2] = "field-update" THEN routeFieldUpdate(id)
                      ELSE UNCHANGED updaterVars
              ELSE UNCHANGED <<saveVars, updaterVars>>
    ELSE /\ lastEvent' = [Event(origin, data, FALSE) EXCEPT !.seen = FALSE]
         /\ UNCHANGED <<allowedOrigins, isConnected, studioOrigin, messageQueue,
                        bridgeIsDestroyed, posted, firstInit, lastSend>>
         /\ UNCHANGED <<saveVars, updaterVars>>

WindowEvents ==
  {<<OriginApp, data, "u1">> : data \in {InitMessage, SavedFor(Str("r2")), UpdateMessage("u1")}}
  \cup {<<OriginEvil, InitMessage, "u1">>}

WindowEvent ==
  \E event \in WindowEvents :
    /\ Len(calls) + Len(deliveries) < MaxHandled
    /\ WindowMessage(event[1], event[2], event[3])

\* isConnected() of Preview: messageBridge?.isConnectedToStudio() ?? false
previewIsConnected == preview.messageBridge /\ isConnected

InitStandalone ==
  /\ kids = KidsOf([n \in 1..1 |-> Body])
  /\ attrs = [n \in Nodes |-> IF n = 1 THEN PageAttrs("r2", "body", "en", NoAttr)
                               ELSE PageAttrs(NoAttr, NoAttr, NoAttr, NoAttr)]
  /\ content = [n \in Nodes |-> "initial"]
  /\ hostChanges = 0
  /\ InitRegistry
  /\ QuietUpdater
  /\ InitBridge
  /\ preview \in {construct(WithSync(PreviewConfig(FALSE, mc[1], "unset", mc[3]),
                                     "unset", FALSE), mc[2]) :
                    mc \in {<<"standalone", "other", "unset">>, <<"unset", "self", "unset">>,
                            <<"iframe", "self", "false">>}}
  /\ readyTimer = preview.messageBridge
  /\ onReadyCalls = 0
  /\ overlay = NewOverlay
  /\ lastCall = NoCall
  /\ QuietWindow /\ QuietOrigin /\ QuietSave

NextStandalone ==
  \/ /\ OnReady
     /\ UNCHANGED <<previewVars, originVars, domVars, registryVars, updaterVars, saveVars>>
  \/ /\ WindowEvent
     /\ UNCHANGED <<readyVars, previewVars, originVars, domVars, registryVars>>
  \/ /\ subscribe("refresh")
     /\ UNCHANGED <<bridgeVars, readyVars, previewVars, originVars, domVars, registryVars,
                    updaterVars>>
  \/ /\ Settle
     /\ UNCHANGED <<bridgeVars, readyVars, previewVars, originVars, domVars, registryVars,
                    updaterVars>>
  \/ /\ TimerFire
     /\ UNCHANGED <<bridgeVars, readyVars, previewVars, originVars, saveVars>>
  \/ /\ ShowOverlay
     /\ UNCHANGED <<bridgeVars, readyVars, preview, lastCall, windowVars, originVars, domVars,
                    registryVars, updaterVars, saveVars>>
  \/ /\ EditClick
     /\ UNCHANGED <<readyVars, preview, lastCall, focus, instances, debugHandle,
                    originVars, domVars, registryVars, updaterVars, saveVars>>
  \/ /\ PreviewDestroy
     /\ UNCHANGED <<readyVars, lastCall, originVars, domVars>>

SpecStandalone == InitStandalone /\ [][NextStandalone]_vars

\* C33: in standalone mode there is no MessageBridge: no window message
\* event reaches a handler, no node is patched, no save callback is invoked,
\* isConnected() is and stays false, and nothing is ever posted.
C33_StandaloneHasNoChannel ==
  [](preview.mode = "standalone" =>
       /\ ~preview.messageBridge
       /\ ~lastEvent.seen /\ ~lastEvent.forwarded
       /\ content = [n \in Nodes |-> "initial"]
       /\ calls = <<>> /\ invoked = <<>> /\ deliveries = <<>>
       /\ ~previewIsConnected /\ ~isConnected
       /\ posted = <<>> /\ messageQueue = <<>>)

\* a standalone Preview with a subscribed save callback to which the window
\* delivered a content-saved message from an allowed origin, and whose edit
\* button opened the editor URL
C33_Witness ==
  /\ preview.mode = "standalone" /\ preview.config.mode = "unset"
  /\ SetHas(saveCallbacks, "refresh")
  /\ lastEvent.stamp = 1 /\ lastEvent.origin = OriginApp
  /\ lastEvent.data = SavedFor(Str("r2"))
  /\ opened # <<>>

----------------------------------------------------------------------------
(* FieldRegistry: repeated discovery of a node, and the keys of a node *)

\* the keys in whose list node n is
KeysOf(reg, n) ==
  {reg[i].key : i \in {j \in DOMAIN reg : \E h \in DOMAIN reg[j].elements :
                                             reg[j].elements[h].element = n}}

\* the number of entries of node n in the list of a key
TimesIn(reg, key, n) ==
  LET lists == SelectSeq(reg, LAMBDA r : r.key = key)
  IN IF lists = <<>> THEN 0
     ELSE Len(SelectSeq(Head(lists).elements, LAMBDA re : re.element = n))

C39_OneKeyPerNode ==
  (~registryIsDestroyed /\ mutations = <<>>) =>
    \A n \in Nodes : Cardinality(KeysOf(registry, n)) <= 1

----------------------------------------------------------------------------
(* Activations in iframe mode: one routing outcome each *)

\* the posts a step adds
NewlyPosted == SubSeq(posted', Len(posted) + 1, Len(posted'))

\* the editor URL was opened for the record and field of a field-click
OpenedFor(message) ==
  \E j \in DOMAIN opened :
    opened[j].entryId = message.entryId /\ opened[j].fieldApiId = message.fieldApiId

\* C35: in iframe mode an activation is either posted as a field-click or
\* opens the editor URL, never both: the step of an activation does not post
\* successfully and open the URL, and the field-clicks posted when the
\* handshake completes are not those of activations that opened the URL
\* before it.
C35_OneOutcome ==
  [][preview.mode = "iframe" =>
       /\ Activated => ~(opened' # opened /\ posted' # posted /\ lastSend'.result)
       /\ (~isConnected /\ isConnected') =>
            \A i \in DOMAIN NewlyPosted :
              NewlyPosted[i].message.type = "field-click" => ~OpenedFor(NewlyPosted[i].message)]_vars

----------------------------------------------------------------------------
(* MessageBridge: forwarding, disconnect, and the invariant of its fields *)

MessageEventStep == lastEvent'.stamp # lastEvent.stamp
SendStep == lastSend'.stamp # lastSend.stamp

\* C36: whether a message event is passed to onMessage depends on the
\* origin allow-list and the shape check only: a valid message from an
\* allowed origin is forwarded before any init (a message other than init
\* leaves the bridge unconnected) and, once a peer origin is stored, also
\* when it comes from another allowed origin, which leaves the peer origin
\* as it is.
C36_ForwardingIgnoresConnection ==
  [][(MessageEventStep /\ ~bridgeIsDestroyed) =>
       /\ lastEvent'.forwarded <=>
            (isOriginAllowed(lastEvent'.origin) /\ isValidStudioMessage(lastEvent'.data))
       /\ (lastEvent'.forwarded /\ lastEvent'.data.type # Str("init")) =>
            UNCHANGED <<isConnected, studioOrigin>>
       /\ (lastEvent'.forwarded /\ isConnected) =>
            UNCHANGED <<isConnected, studioOrigin>>]_vars

\* a content-saved message from another allowed origin than the peer was
\* forwarded
C36_Witness ==
  /\ isConnected /\ studioOrigin = OriginApp
  /\ lastEvent.forwarded /\ lastEvent.origin = OriginEditor
  /\ lastEvent.data = SavedMessage

\* a content-saved message was forwarded to a bridge that has seen no init
C36_WitnessBeforeInit ==
  /\ ~isConnected /\ firstInit = NullOrigin /\ ~bridgeIsDestroyed
  /\ lastEvent.forwarded /\ lastEvent.data = SavedMessage

\* C37: a disconnect message changes nothing in the bridge: it is forwarded
\* like any valid message, the connected flag, the peer origin, the queue
\* and the posts stay as they are; the next sendMessage still posts to the
\* peer origin, and an init from another allowed origin that follows it
\* does not change the peer origin.
C37_DisconnectKeepsChannel ==
  [][/\ (MessageEventStep /\ lastEvent'.data = DisconnectMessage) =>
          /\ UNCHANGED <<isConnected, studioOrigin, messageQueue, posted, bridgeIsDestroyed>>
          /\ lastEvent'.forwarded <=>
               (~bridgeIsDestroyed /\ isOriginAllowed(lastEvent'.origin))
     /\ (lastEvent.forwarded /\ lastEvent.data = DisconnectMessage /\ isConnected) =>
          /\ (SendStep /\ lastSend'.kind # "ready") =>
               /\ lastSend'.kind = "posted"
               /\ posted' = Append(posted, Post(lastSend'.message, studioOrigin, "sendMessage"))
          /\ (MessageEventStep /\ lastEvent'.data = InitMessage) =>
               (studioOrigin' = studioOrigin /\ isConnected')]_vars

\* connected to one origin, a disconnect from it was forwarded, then an init
\* from another allowed origin, and the bridge is still connected to the first
C37_Witness ==
  /\ isConnected /\ studioOrigin = OriginApp
  /\ lastEvent.forwarded /\ lastEvent.data = DisconnectMessage
  /\ lastEvent.origin = OriginApp
  /\ lastSend.kind = "posted" /\ posted # <<>>
  /\ posted[Len(posted)].target = OriginApp

----------------------------------------------------------------------------
(* The order of the save callbacks of one delivery *)

\* the invocations a step adds for delivery d, in order
NewInvocations(d) ==
  SelectSeq(SubSeq(invoked', Len(invoked) + 1, Len(invoked')),
            LAMBDA inv : inv.delivery = d)

\* C40: the callbacks of one content-saved message run one after the other:
\* a step invokes at most one callback that returns a promise, and the
\* delivery invokes nothing more until that promise has settled; once
\* destroy() has been called no delivery that was suspended at that moment
\* invokes another callback.
C40_SequentialDelivery ==
  [][\A d \in DOMAIN deliveries' :
       LET new == NewInvocations(d)
       IN /\ \A i \in DOMAIN new :
               Behaviour[new[i].callback] # "throws" => i = Len(new)
          /\ (new # <<>> /\ Behaviour[new[Len(new)].callback] # "throws") =>
               deliveries'[d].pos # 0
          /\ (d \in DOMAIN deliveries /\ new # <<>>) =>
               (deliveries[d].pos # 0 /\ deliveries'[d].pos # deliveries[d].pos)
          /\ (d \in DOMAIN deliveries /\ updaterIsDestroyed) => new = <<>>]_vars

====
